---- MODULE Spec2Model ----
(***************************************************************************)
(* OpsIQ: anomaly detection -> scoring -> self-adjusting Threshold Memory. *)
(*                                                                         *)
(* Numbers.  Every numeric memory value and every dollar amount is kept as *)
(* an integer number of hundredths (0.15 is 15, 2 hours is 200, $10.0 is   *)
(* 1000), so that the 0.05 / 0.15 / 0.5 / 25.0 steps of the feedback rules *)
(* are exact.  Timestamps of refunds are seconds.                          *)
(*                                                                         *)
(* Values.  A Python value held in memory is a tagged tuple: <<"num", n>>, *)
(* <<"str", s>> or <<"null">> (None).                                      *)
(***************************************************************************)
EXTENDS Integers, Sequences, FiniteSets, TLC

VARIABLES
    data,       \* the tabular data source (never written)
    memory,     \* table memory: sequence of rows, in insertion (rowid) order
    cases,      \* table cases: set of rows, case_id is the primary key
    feedback,   \* table feedback: the log, in insertion order
    last,       \* the last completed call: its operation, inputs and result
    written,    \* history: per key, the value of the latest set since the last clear
    fpBase,     \* history: per anomaly type, confidence rank of the case at its first false_positive
    threads     \* concurrent request handlers: each one's position and locals

vars == <<data, memory, cases, feedback, last, written, fpBase, threads>>

---------------------------------------------------------------------------
(* Bounds of the model *)

\* longest feedback log explored
MaxFeedback == 2
\* longest feedback log explored where only the five feedback kinds that act are submitted
MaxDeep == 5
\* feedback submissions between the runs of specification SpecEntry
MaxEntryFeedback == 1
\* memory store calls each concurrent handler makes
MaxCalls == 2
\* positions of a batch of cases at which a call is made to raise
MaxBatch == 3
\* rows of the refunds tables the duplicate detector is applied to
MaxRefunds == 3

\* the largest batch of anomalies handed to the scorer on its own
MaxAnomalies == 3
\* the largest batch of scored anomalies turned into cases on its own
MaxCases == 102
\* feedback submissions of specification SpecLog, and the feedback_ids uuid4 may give them
MaxLog == 2
\* feedback submissions of specification SpecRatchet
MaxRatchet == 3
\* feedback submissions each concurrent handler takes in specification SpecRace
MaxSubmissions == 2
MaxIds == 2

---------------------------------------------------------------------------
(* Python values and their JSON text *)

Num(n) == <<"num", n>>
Str(s) == <<"str", s>>
None == <<"null">>

\* json.dumps(value): the TEXT stored in the value column
Dumps(v) == <<"json", v>>
\* json.loads(text)
Loads(t) == t[2]

\* Python truthiness of a value: None, 0, 0.0 and "" are falsy
Truthy(v) == /\ v # None
             /\ v # Num(0)
             /\ v # Str("")

\* `x or d`
OrDefault(v, d) == IF Truthy(v) THEN v ELSE d

Min(a, b) == IF a <= b THEN a ELSE b
Max(a, b) == IF a >= b THEN a ELSE b

---------------------------------------------------------------------------
(* memory_store.py *)

\* _DEFAULTS, in list order
DEFAULTS ==
    << [key |-> "duplicate_refund_window_hours", value |-> Num(200),       source |-> "system_default"],
       [key |-> "underbilling_threshold",        value |-> Num(1000),      source |-> "system_default"],
       [key |-> "refund_spike_multiplier",       value |-> Num(200),       source |-> "system_default"],
       [key |-> "manual_credit_threshold",       value |-> Num(20000),     source |-> "system_default"],
       [key |-> "explanation_style",             value |-> Str("detailed"), source |-> "system_default"],
       [key |-> "false_positive_penalty",        value |-> Num(0),         source |-> "system_default"] >>

DefaultKeys == {DEFAULTS[i].key : i \in 1..Len(DEFAULTS)}

\* one row of the memory table (memory_id is a fresh uuid per INSERT and is
\* represented by the row's position; updated_at is not modelled)
MemRow(key, value, source) == [key |-> key, value |-> Dumps(value), source |-> source]

\* the rows _seed_defaults_if_empty inserts, in order
SeedRows == [i \in 1..Len(DEFAULTS) |-> MemRow(DEFAULTS[i].key, DEFAULTS[i].value, DEFAULTS[i].source)]

\* a seeding that inserts nothing
SeedNothing(mem) == mem

\* _seed_defaults_if_empty: SELECT count(*); if 0, INSERT every default
SeedDefaultsIfEmpty(mem) == IF Len(mem) = 0 THEN SeedRows ELSE mem

\* SELECT ... FROM memory WHERE key = ?  (all matching rows, rowid order)
RowsWithKey(mem, key) == SelectSeq(mem, LAMBDA r : r.key = key)

\* the value get_memory returns on a table already seeded: fetchone() or None
SelectValue(mem, key) ==
    LET rows == RowsWithKey(mem, key)
    IN  IF Len(rows) = 0 THEN None ELSE Loads(rows[1].value)

\* get_memory(key) as a function of the table before the call
GetMemory(mem, key) == SelectValue(SeedDefaultsIfEmpty(mem), key)

\* UPDATE memory SET value, source WHERE key = ?  (every matching row)
UpdateRows(mem, key, value, source) ==
    [i \in 1..Len(mem) |->
        IF mem[i].key = key THEN MemRow(key, value, source) ELSE mem[i]]

\* a set_memory that INSERTs without looking for the key
UpsertAlwaysInserts(mem, key, value, source) == Append(mem, MemRow(key, value, source))

\* the upsert of set_memory on a table already seeded
Upsert(mem, key, value, source) ==
    IF Len(RowsWithKey(mem, key)) > 0
    THEN UpdateRows(mem, key, value, source)
    ELSE Append(mem, MemRow(key, value, source))

\* set_memory(key, value, reason, source): the table after the call
SetMemory(mem, key, value, source) ==
    Upsert(SeedDefaultsIfEmpty(mem), key, value, source)

\* _row_to_entry over every row: what get_all_memory returns (ORDER BY
\* updated_at is not modelled; rows come in rowid order)
GetAllMemory(mem) ==
    LET m == SeedDefaultsIfEmpty(mem)
    IN  [i \in 1..Len(m) |-> [key |-> m[i].key, value |-> Loads(m[i].value), source |-> m[i].source]]

\* clear_memory: DELETE FROM memory
ClearMemory == << >>

---------------------------------------------------------------------------
(* Strings that are cut, joined and split are sequences of characters *)

LowerAlpha == <<"a","b","c","d","e","f","g","h","i","j","k","l","m",
                "n","o","p","q","r","s","t","u","v","w","x","y","z">>
UpperAlpha == <<"A","B","C","D","E","F","G","H","I","J","K","L","M",
                "N","O","P","Q","R","S","T","U","V","W","X","Y","Z">>
Digits == <<"0","1","2","3","4","5","6","7","8","9">>

\* str.upper() on one character
UpperChar(c) ==
    IF \E i \in 1..Len(LowerAlpha) : LowerAlpha[i] = c
    THEN UpperAlpha[CHOOSE i \in 1..Len(LowerAlpha) : LowerAlpha[i] = c]
    ELSE c

\* s.upper()
Upper(s) == [i \in 1..Len(s) |-> UpperChar(s[i])]

\* s[:n]
FirstN(s, n) == IF Len(s) <= n THEN s ELSE SubSeq(s, 1, n)

\* s[-n:]
LastN(s, n) == IF Len(s) <= n THEN s ELSE SubSeq(s, Len(s) - n + 1, Len(s))

\* the decimal digits of a natural number
RECURSIVE DecimalDigits(_)
DecimalDigits(n) ==
    IF n < 10 THEN <<Digits[n + 1]>>
    ELSE DecimalDigits(n \div 10) \o <<Digits[(n % 10) + 1]>>

\* a format that keeps the last two digits only
Format02dLastTwo(n) == <<Digits[((n \div 10) % 10) + 1], Digits[(n % 10) + 1]>>

\* f"{index:02d}": at least two digits, zero padded
Format02d(n) ==
    LET d == DecimalDigits(n)
    IN  IF Len(d) < 2 THEN <<"0">> \o d ELSE d

\* s.split("-"): the parts of s between hyphens, empty parts included
RECURSIVE SplitFrom(_, _, _)
SplitFrom(s, i, cur) ==
    IF i > Len(s) THEN <<cur>>
    ELSE IF s[i] = "-" THEN <<cur>> \o SplitFrom(s, i + 1, << >>)
    ELSE SplitFrom(s, i + 1, Append(cur, s[i]))

Split(s) == SplitFrom(s, 1, << >>)

---------------------------------------------------------------------------
(* The tabular data source (customers, subscriptions, invoices, refunds) *)

AnomalyTypes ==
    {"duplicate_refund", "underbilling", "tier_mismatch", "refund_spike", "manual_credit"}

\* the characters of each anomaly_type string
TypeChars(atype) ==
    CASE atype = "duplicate_refund" ->
            <<"d","u","p","l","i","c","a","t","e","_","r","e","f","u","n","d">>
      [] atype = "underbilling" ->
            <<"u","n","d","e","r","b","i","l","l","i","n","g">>
      [] atype = "tier_mismatch" ->
            <<"t","i","e","r","_","m","i","s","m","a","t","c","h">>
      [] atype = "refund_spike" ->
            <<"r","e","f","u","n","d","_","s","p","i","k","e">>
      [] atype = "manual_credit" ->
            <<"m","a","n","u","a","l","_","c","r","e","d","i","t">>

\* A cut of the seeded tables that keeps three of the seeded anomalies:
\* C003 refunded $150 twice 90 minutes apart, INV008 billed $199 for $299,
\* and the $500 manual credit REF009 of C009.  Ids are their numbers.
SeedData ==
    [ customers |->
        { [customer_id |-> 3, region |-> "NA"],
          [customer_id |-> 5, region |-> "APAC"],
          [customer_id |-> 9, region |-> "EMEA"] },
      subscriptions |->
        { [customer_id |-> 5, plan_tier |-> "pro", billing_status |-> "active"] },
      invoices |->
        { [invoice_id |-> 8, customer_id |-> 5, billed_amount |-> 19900,
           expected_amount |-> 29900, plan_tier_billed |-> "pro"] },
      refunds |->
        { [refund_id |-> 1, customer_id |-> 3, refund_date |-> 0,
           amount |-> 15000, reason |-> "customer_request"],
          [refund_id |-> 2, customer_id |-> 3, refund_date |-> 5400,
           amount |-> 15000, reason |-> "customer_request"],
          [refund_id |-> 9, customer_id |-> 9, refund_date |-> 90000,
           amount |-> 50000, reason |-> "manual_credit"] } ]

\* A refunds table alone: one refund of $150 made twice, 45 minutes apart
DuplicateOnlyData ==
    [ customers |-> { [customer_id |-> 3, region |-> "NA"] },
      subscriptions |-> {},
      invoices |-> {},
      refunds |->
        { [refund_id |-> 1, customer_id |-> 3, refund_date |-> 0,
           amount |-> 15000, reason |-> "customer_request"],
          [refund_id |-> 2, customer_id |-> 3, refund_date |-> 2700,
           amount |-> 15000, reason |-> "customer_request"] } ]

\* A cut of the seeded tables that keeps one anomaly of each of the five
\* types: the three of SeedData, INV012 billed at the starter tier to a
\* customer subscribed to enterprise ($5 short), and seven refunds in
\* LATAM over five days, three of them ($10, $20, $30) on the same day.
FullData ==
    [ customers |->
        SeedData.customers \cup
        { [customer_id |-> 6, region |-> "APAC"],
          [customer_id |-> 7, region |-> "LATAM"] },
      subscriptions |->
        SeedData.subscriptions \cup
        { [customer_id |-> 6, plan_tier |-> "enterprise", billing_status |-> "active"] },
      invoices |->
        SeedData.invoices \cup
        { [invoice_id |-> 12, customer_id |-> 6, billed_amount |-> 4900,
           expected_amount |-> 5400, plan_tier_billed |-> "starter"] },
      refunds |->
        SeedData.refunds \cup
        { [refund_id |-> 21, customer_id |-> 7, refund_date |-> 864000,
           amount |-> 1000, reason |-> "customer_request"],
          [refund_id |-> 22, customer_id |-> 7, refund_date |-> 874000,
           amount |-> 2000, reason |-> "customer_request"],
          [refund_id |-> 23, customer_id |-> 7, refund_date |-> 884000,
           amount |-> 3000, reason |-> "customer_request"],
          [refund_id |-> 24, customer_id |-> 7, refund_date |-> 950400,
           amount |-> 1100, reason |-> "customer_request"],
          [refund_id |-> 25, customer_id |-> 7, refund_date |-> 1036800,
           amount |-> 1200, reason |-> "customer_request"],
          [refund_id |-> 26, customer_id |-> 7, refund_date |-> 1123200,
           amount |-> 1300, reason |-> "customer_request"],
          [refund_id |-> 27, customer_id |-> 7, refund_date |-> 1209600,
           amount |-> 1400, reason |-> "customer_request"] } ]

\* An invoices table alone: five invoices of one customer billed $100,
\* $50, $35, $20 and $5 under the expected amount
UnderbillingData ==
    [ customers |-> { [customer_id |-> 5, region |-> "APAC"] },
      subscriptions |-> {},
      invoices |->
        { [invoice_id |-> 8, customer_id |-> 5, billed_amount |-> 19900,
           expected_amount |-> 29900, plan_tier_billed |-> "pro"],
          [invoice_id |-> 13, customer_id |-> 5, billed_amount |-> 24900,
           expected_amount |-> 29900, plan_tier_billed |-> "pro"],
          [invoice_id |-> 14, customer_id |-> 5, billed_amount |-> 26400,
           expected_amount |-> 29900, plan_tier_billed |-> "pro"],
          [invoice_id |-> 15, customer_id |-> 5, billed_amount |-> 27900,
           expected_amount |-> 29900, plan_tier_billed |-> "pro"],
          [invoice_id |-> 16, customer_id |-> 5, billed_amount |-> 29400,
           expected_amount |-> 29900, plan_tier_billed |-> "pro"] },
      refunds |-> {} ]

---------------------------------------------------------------------------
(* anomaly_tool.py: the detectors.  Each is given the data and the memory  *)
(* table as get_memory finds it (seeded) and returns its anomalies; a raw  *)
(* anomaly keeps anomaly_type, raw_impact and the ids of the rows it is    *)
(* about (evidence strings are not modelled).  Rows come in id order.      *)

Abs(n) == IF n < 0 THEN -n ELSE n

\* the number a numeric value carries
NumOf(v) == v[2]

\* a set of records with distinct integer field ord, as the sequence of
\* their field a in increasing ord
RECURSIVE InOrder(_)
InOrder(S) ==
    IF S = {} THEN << >>
    ELSE LET x == CHOOSE y \in S : \A z \in S : y.ord <= z.ord
         IN  <<x.a>> \o InOrder(S \ {x})

RawAnomaly(atype, impact, entity) ==
    [anomaly_type |-> atype, raw_impact |-> impact, entity |-> entity]

\* hours, in hundredths, times 3600: the window in hundredths of a second
WindowSeconds(window_hours) == window_hours * 3600

\* a join that only asks for two different refund ids
RefundIdDiffers(r1, r2) == r1.refund_id # r2.refund_id

\* the join condition r1.refund_id < r2.refund_id
RefundIdBefore(r1, r2) == r1.refund_id < r2.refund_id

\* detect_duplicate_refunds: the self-join of refunds
DetectDuplicateRefunds(d, mem) ==
    LET window_hours == NumOf(OrDefault(SelectValue(mem, "duplicate_refund_window_hours"), Num(200)))
        pairs == { <<r1, r2>> \in d.refunds \X d.refunds :
                      /\ r1.customer_id = r2.customer_id
                      /\ r1.amount = r2.amount
                      /\ RefundIdBefore(r1, r2)
                      /\ Abs(r2.refund_date - r1.refund_date) * 100 < WindowSeconds(window_hours) }
    IN  InOrder({ [ord |-> p[1].refund_id * 1000 + p[2].refund_id,
                   a   |-> RawAnomaly("duplicate_refund", p[1].amount,
                                      <<p[1].refund_id, p[2].refund_id>>)] : p \in pairs })

\* a WHERE clause that fires at the threshold too
UnderbillingFiresAtThreshold(inv, threshold) ==
    inv.expected_amount - inv.billed_amount >= threshold

\* the WHERE clause of detect_underbilling
UnderbillingFires(inv, threshold) == inv.expected_amount - inv.billed_amount > threshold

\* detect_underbilling: invoices joined with customers
DetectUnderbilling(d, mem) ==
    LET threshold == NumOf(OrDefault(SelectValue(mem, "underbilling_threshold"), Num(1000)))
        rows == { i \in d.invoices :
                     /\ \E c \in d.customers : c.customer_id = i.customer_id
                     /\ UnderbillingFires(i, threshold) }
    IN  InOrder({ [ord |-> i.invoice_id,
                   a   |-> RawAnomaly("underbilling", i.expected_amount - i.billed_amount,
                                      <<i.invoice_id>>)] : i \in rows })

\* detect_tier_mismatch: invoices joined with subscriptions and customers
DetectTierMismatch(d) ==
    LET rows == { <<i, s>> \in d.invoices \X d.subscriptions :
                     /\ i.customer_id = s.customer_id
                     /\ \E c \in d.customers : c.customer_id = i.customer_id
                     /\ s.plan_tier # i.plan_tier_billed
                     /\ s.billing_status = "active" }
    IN  InOrder({ [ord |-> p[1].invoice_id,
                   a   |-> RawAnomaly("tier_mismatch",
                                      Max(p[1].expected_amount - p[1].billed_amount, 0),
                                      <<p[1].invoice_id>>)] : p \in rows })

RECURSIVE SumOf(_, _)
\* the sum of field f(x) over a set
SumOf(S, f) ==
    IF S = {} THEN 0
    ELSE LET x == CHOOSE y \in S : TRUE IN f[x] + SumOf(S \ {x}, f)

\* refund_date::date
DayOf(t) == t \div 86400

\* detect_refund_spike: daily refund counts per region against multiplier x the mean
DetectRefundSpike(d, mem) ==
    LET multiplier == NumOf(OrDefault(SelectValue(mem, "refund_spike_multiplier"), Num(200)))
        joined == { <<r, c>> \in d.refunds \X d.customers : r.customer_id = c.customer_id }
        regions == { p[2].region : p \in joined }
        DaysOf(region) == { DayOf(p[1].refund_date) : p \in { q \in joined : q[2].region = region } }
        On(region, day) == { p[1] : p \in { q \in joined :
                                 q[2].region = region /\ DayOf(q[1].refund_date) = day } }
        Total(region) == Cardinality({ p \in joined : p[2].region = region })
        \* daily_count > mean(daily_count) * multiplier, the mean being Total / #days
        Spikes(region, day) ==
            /\ Cardinality(DaysOf(region)) >= 2
            /\ Cardinality(On(region, day)) * Cardinality(DaysOf(region)) * 100
                  > Total(region) * multiplier
            /\ Cardinality(On(region, day)) >= 3
        hits == { <<region, day>> \in regions \X { DayOf(r.refund_date) : r \in d.refunds } :
                     day \in DaysOf(region) /\ Spikes(region, day) }
    IN  InOrder({ [ord |-> h[2],
                   a   |-> RawAnomaly("refund_spike",
                                      SumOf(On(h[1], h[2]), [r \in On(h[1], h[2]) |-> r.amount]),
                                      <<h[2]>>)] : h \in hits })

\* detect_manual_credits: refunds joined with customers
DetectManualCredits(d, mem) ==
    LET threshold == NumOf(OrDefault(SelectValue(mem, "manual_credit_threshold"), Num(20000)))
        rows == { r \in d.refunds :
                     /\ \E c \in d.customers : c.customer_id = r.customer_id
                     /\ r.reason = "manual_credit"
                     /\ r.amount > threshold }
    IN  InOrder({ [ord |-> r.refund_id,
                   a   |-> RawAnomaly("manual_credit", r.amount, <<r.refund_id>>)] : r \in rows })

\* the `detectors` list of run_all_detectors
DetectorNames ==
    <<"duplicate_refund", "underbilling", "tier_mismatch", "refund_spike", "manual_credit">>

\* what the detector of this name returns when it does not raise
Detector(name, d, mem) ==
    CASE name = "duplicate_refund" -> DetectDuplicateRefunds(d, mem)
      [] name = "underbilling" -> DetectUnderbilling(d, mem)
      [] name = "tier_mismatch" -> DetectTierMismatch(d)
      [] name = "refund_spike" -> DetectRefundSpike(d, mem)
      [] name = "manual_credit" -> DetectManualCredits(d, mem)

\* a loop that stops at the first detector that raises
RECURSIVE DetectorLoopAborts(_, _, _, _, _)
DetectorLoopAborts(i, all_anomalies, d, mem, raising) ==
    IF i > Len(DetectorNames) \/ DetectorNames[i] \in raising THEN all_anomalies
    ELSE DetectorLoopAborts(i + 1, all_anomalies \o Detector(DetectorNames[i], d, mem),
                            d, mem, raising)

\* the loop of run_all_detectors from the i-th detector on: try: extend
\* all_anomalies with what it found; except: log and go on
RECURSIVE DetectorLoop(_, _, _, _, _)
DetectorLoop(i, all_anomalies, d, mem, raising) ==
    IF i > Len(DetectorNames) THEN all_anomalies
    ELSE IF DetectorNames[i] \in raising
    THEN DetectorLoop(i + 1, all_anomalies, d, mem, raising)
    ELSE DetectorLoop(i + 1, all_anomalies \o Detector(DetectorNames[i], d, mem),
                      d, mem, raising)

\* run_all_detectors when the detectors named in `raising` raise
RunAllDetectorsWith(d, mem, raising) == DetectorLoop(1, << >>, d, mem, raising)

\* run_all_detectors when no detector raises: the five results in the fixed order
RunAllDetectors(d, mem) == RunAllDetectorsWith(d, mem, {})

---------------------------------------------------------------------------
(* feedback_store.py *)

FeedbackTypes == {"approve", "reject", "false_positive", "useful", "not_useful"}

\* a row of the feedback table (feedback_id is a fresh uuid per item and is
\* represented by the row's position; comment and timestamp are not modelled)
FeedbackItem(target_type, target_id, feedback_type) ==
    [target_type |-> target_type, target_id |-> target_id, feedback_type |-> feedback_type]

\* save_feedback when the feedback_id it generates is not in the table: the
\* row is added (a row's position stands for its id)
SaveFeedback(log, item) == Append(log, item)

\* save_feedback with the feedback_id it generated: INSERT OR REPLACE on the
\* primary key feedback_id deletes the row that has the id and adds the new one
InsertOrReplaceFeedback(log, feedback_id, item) ==
    LET others == { i \in 1..Len(log) : log[i].feedback_id # feedback_id }
        Kept[i \in 0..Len(log)] ==
            IF i = 0 THEN << >>
            ELSE IF i \in others THEN Append(Kept[i - 1], log[i]) ELSE Kept[i - 1]
    IN  Append(Kept[Len(log)],
               [feedback_id |-> feedback_id, target_type |-> item.target_type,
                target_id |-> item.target_id, feedback_type |-> item.feedback_type])

\* get_false_positive_case_ids: SELECT DISTINCT target_id ...
GetFalsePositiveCaseIds(log) ==
    { log[i].target_id : i \in { j \in 1..Len(log) :
          log[j].target_type = "case" /\ log[j].feedback_type = "false_positive" } }

\* clear_feedback
ClearFeedback == << >>

---------------------------------------------------------------------------
(* scoring_tool.py *)

IMPACT_HIGH == 20000
IMPACT_MEDIUM == 5000

\* _BASE_SCORES
BaseScores(atype) ==
    IF atype \in {"duplicate_refund", "underbilling", "tier_mismatch"}
    THEN [severity |-> "high", confidence |-> "high"]
    ELSE [severity |-> "medium", confidence |-> "medium"]

\* _PREFIX_TO_TYPE
PrefixToType ==
    { << <<"D","U","P">>, "duplicate_refund" >>,
      << <<"U","N","D">>, "underbilling" >>,
      << <<"T","I","E">>, "tier_mismatch" >>,
      << <<"R","E","F">>, "refund_spike" >>,
      << <<"M","A","N">>, "manual_credit" >> }

\* the anomaly type one false-positive case id decodes to, if any:
\* parts = cid.split("-"); len(parts) >= 2 and parts[1] in _PREFIX_TO_TYPE
DecodedTypes(cid) ==
    LET parts == Split(cid)
    IN  IF Len(parts) >= 2
        THEN { m[2] : m \in { n \in PrefixToType : n[1] = parts[2] } }
        ELSE {}

\* fp_types of score_all_anomalies
FalsePositiveTypes(log) == UNION { DecodedTypes(cid) : cid \in GetFalsePositiveCaseIds(log) }

\* an impact adjustment whose upper band starts above _IMPACT_HIGH
AdjustSeverityStrict(severity, impact) ==
    IF impact > IMPACT_HIGH THEN "high"
    ELSE IF impact < IMPACT_MEDIUM /\ severity = "high" THEN "medium"
    ELSE severity

\* the impact adjustment of severity
AdjustSeverity(severity, impact) ==
    IF impact >= IMPACT_HIGH THEN "high"
    ELSE IF impact < IMPACT_MEDIUM /\ severity = "high" THEN "medium"
    ELSE severity

\* a change of confidence by one level in the wrong direction
RaiseConfidence(confidence) ==
    IF confidence = "low" THEN "medium"
    ELSE IF confidence = "medium" THEN "high"
    ELSE confidence

\* a downgrade that drops confidence to the lowest level at once
DowngradeToLow(confidence) == "low"

\* the downgrade of confidence by one level
DowngradeConfidence(confidence) ==
    IF confidence = "high" THEN "medium"
    ELSE IF confidence = "medium" THEN "low"
    ELSE confidence

\* round(n / d) to the nearest integer, ties to even
RoundDiv(n, d) ==
    LET q == n \div d
        r == n % d
    IN  IF 2 * r < d THEN q
        ELSE IF 2 * r > d THEN q + 1
        ELSE IF q % 2 = 0 THEN q ELSE q + 1

\* _ACTIONS.get(atype, "Review and investigate."), each text by its first words
Actions(atype) ==
    CASE atype = "duplicate_refund" -> "Investigate and reverse the duplicate refund."
      [] atype = "underbilling" -> "Correct billing amount on next invoice cycle."
      [] atype = "tier_mismatch" -> "Align invoice tier with subscription tier."
      [] atype = "refund_spike" -> "Review regional refund surge."
      [] atype = "manual_credit" -> "Audit manual credit approval chain."
      [] OTHER -> "Review and investigate."

\* an impact read back from the estimate an earlier scoring left in the record
ImpactOfScored(anomaly) ==
    IF "estimated_impact" \in DOMAIN anomaly THEN anomaly.estimated_impact
    ELSE IF "raw_impact" \in DOMAIN anomaly THEN anomaly.raw_impact
    ELSE 0

\* anomaly.get("raw_impact", 0.0)
ImpactOf(anomaly) ==
    IF "raw_impact" \in DOMAIN anomaly THEN anomaly.raw_impact ELSE 0

\* score_anomaly, on the memory table as get_memory finds it (seeded): the
\* anomaly dict with severity, confidence, estimated_impact and
\* recommended_action written into it
ScoreAnomaly(anomaly, false_positive_types, mem) ==
    LET atype == anomaly.anomaly_type
        base == BaseScores(atype)
        raw == ImpactOf(anomaly)
        fp_penalty == NumOf(OrDefault(SelectValue(mem, "false_positive_penalty"), Num(0)))
        hit == false_positive_types # {} /\ atype \in false_positive_types
        impact == IF hit /\ fp_penalty > 0
                  THEN RoundDiv(raw * (100 - fp_penalty), 100)
                  ELSE raw
    IN  [anomaly_type |-> atype,
         raw_impact |-> anomaly.raw_impact,
         entity |-> anomaly.entity,
         severity |-> AdjustSeverity(base.severity, raw),
         confidence |-> IF hit THEN DowngradeConfidence(base.confidence) ELSE base.confidence,
         estimated_impact |-> impact,
         recommended_action |-> Actions(atype)]

\* severity_order
SeverityOrder(severity) ==
    CASE severity = "critical" -> 0
      [] severity = "high" -> 1
      [] severity = "medium" -> 2
      [] severity = "low" -> 3
      [] OTHER -> 9

\* the sort key order: (severity_order, -estimated_impact)
KeyLess(a, b) ==
    \/ SeverityOrder(a.severity) < SeverityOrder(b.severity)
    \/ /\ SeverityOrder(a.severity) = SeverityOrder(b.severity)
       /\ a.estimated_impact > b.estimated_impact

\* x put into a sorted sequence before the elements that compare equal to it
RECURSIVE InsertBeforeEqual(_, _)
InsertBeforeEqual(sorted, x) ==
    IF sorted = << >> THEN <<x>>
    ELSE IF ~KeyLess(Head(sorted), x) THEN <<x>> \o sorted
    ELSE <<Head(sorted)>> \o InsertBeforeEqual(Tail(sorted), x)

\* x put into a sorted sequence after every element not greater than it
RECURSIVE InsertSorted(_, _)
InsertSorted(sorted, x) ==
    IF sorted = << >> THEN <<x>>
    ELSE IF KeyLess(x, Head(sorted)) THEN <<x>> \o sorted
    ELSE <<Head(sorted)>> \o InsertSorted(Tail(sorted), x)

\* list.sort(key=...): stable
RECURSIVE StableSort(_)
StableSort(xs) ==
    IF xs = << >> THEN << >>
    ELSE InsertSorted(StableSort(SubSeq(xs, 1, Len(xs) - 1)), xs[Len(xs)])

\* score_all_anomalies
ScoreAllAnomalies(anomalies, log, mem) ==
    LET fp_types == FalsePositiveTypes(log)
    IN  StableSort([i \in 1..Len(anomalies) |-> ScoreAnomaly(anomalies[i], fp_types, mem)])

---------------------------------------------------------------------------
(* case_store.py *)

\* rows of `cases` with this primary key (none or one)
CasesWithId(cs, case_id) == { c \in cs : c.case_id = case_id }

\* save_case: INSERT OR REPLACE
SaveCase(cs, case) == (cs \ CasesWithId(cs, case.case_id)) \cup {case}

\* save_cases
RECURSIVE SaveCases(_, _)
SaveCases(cs, list) ==
    IF list = << >> THEN cs
    ELSE SaveCases(SaveCase(cs, Head(list)), Tail(list))

\* update_case_status: UPDATE cases SET status WHERE case_id
UpdateCaseStatus(cs, case_id, status) ==
    { IF c.case_id = case_id THEN [c EXCEPT !.status = status] ELSE c : c \in cs }

\* clear_cases
ClearCases == {}

---------------------------------------------------------------------------
(* triage_agent.py *)

\* the length of the run_id suffix a case_id carries
RunSuffixLen == 6

\* the case_id of _anomaly_to_case: f"CASE-{short}-{run_id[-6:]}-{index:02d}"
CaseId(atype, run_id, index) ==
    <<"C","A","S","E","-">> \o Upper(FirstN(TypeChars(atype), 3)) \o <<"-">>
        \o LastN(run_id, RunSuffixLen) \o <<"-">> \o Format02d(index)

\* _anomaly_to_case
AnomalyToCase(anomaly, run_id, index) ==
    [case_id |-> CaseId(anomaly.anomaly_type, run_id, index),
     run_id |-> run_id,
     anomaly_type |-> anomaly.anomaly_type,
     severity |-> anomaly.severity,
     confidence |-> anomaly.confidence,
     estimated_impact |-> anomaly.estimated_impact,
     entity |-> anomaly.entity,
     status |-> "open",
     sentiment_score |-> None]

\* what analyze_case_evidence returns for a case, as far as the model
\* keeps it: a non-empty dict computed from the case's evidence and type
Sentiment(case) == <<"dict", case.anomaly_type>>

\* what can raise inside a run: the detectors named, the sentiment call
\* of the cases at the positions given (from 1), and save_case of the
\* case at position `save` (0: none)
NoFaults == [detectors |-> {}, sentiment |-> {}, save |-> 0]

\* an enrichment loop without the try/except: the first failure ends it
EnrichAborts(built, failing) ==
    [i \in 1..Len(built) |->
        IF \E j \in failing : j <= i THEN built[i]
        ELSE [built[i] EXCEPT !.sentiment_score = Sentiment(built[i])]]

\* step 4 of run_triage: the sentiment call in a try/except per case
Enrich(built, failing) ==
    [i \in 1..Len(built) |->
        IF i \in failing THEN built[i]
        ELSE [built[i] EXCEPT !.sentiment_score = Sentiment(built[i])]]

\* save_cases when save_case raises at position k (each save_case before
\* it has committed); k = 0 or k > Len(list): nothing raises
SaveCasesUntil(cs, list, k) ==
    IF k = 0 \/ k > Len(list) THEN SaveCases(cs, list)
    ELSE SaveCases(cs, SubSeq(list, 1, k - 1))

\* run_triage(run_id) under the given faults: the memory and cases tables
\* after the run, the list returned, and whether the call raised.  Every
\* detector reads memory first, which seeds an empty table.
RunTriageWith(d, mem, cs, log, run_id, faults) ==
    LET seeded == SeedDefaultsIfEmpty(mem)
        raw_anomalies == RunAllDetectorsWith(d, seeded, faults.detectors)
        scored == ScoreAllAnomalies(raw_anomalies, log, seeded)
        built == [i \in 1..Len(scored) |-> AnomalyToCase(scored[i], run_id, i - 1)]
        enriched == Enrich(built, faults.sentiment)
        save_raises == faults.save > 0 /\ faults.save <= Len(enriched)
    IN  IF raw_anomalies = << >>
        THEN [memory |-> seeded, cases |-> cs, ret |-> << >>, raised |-> FALSE]
        ELSE [memory |-> seeded,
              cases |-> SaveCasesUntil(cs, enriched, faults.save),
              ret |-> IF save_raises THEN << >> ELSE enriched,
              raised |-> save_raises]

\* run_triage(run_id) when nothing raises
RunTriage(d, mem, cs, log, run_id) == RunTriageWith(d, mem, cs, log, run_id, NoFaults)

---------------------------------------------------------------------------
(* memory_agent.py *)

\* what a set_memory call returns, as far as the model keeps it
Entry(key, value, source) == [key |-> key, value |-> value, source |-> source]

\* set_memory and the append of its result to `updates`
Write(st, key, value, source) ==
    [memory |-> SetMemory(st.memory, key, value, source),
     updates |-> Append(st.updates, Entry(key, value, source))]

\* `get_memory(key) or default`, as a number
ReadNum(mem, key, default) == NumOf(OrDefault(GetMemory(mem, key), Num(default)))

\* current_penalty + 0.15 without the cap
PenaltyUncapped(current_penalty) == current_penalty + 15

\* current_window - 0.5 without the floor
WindowUnfloored(current_window) == current_window - 50

\* a penalty step capped at 1.0 instead of 0.5
PenaltyCappedAtOne(current_penalty) == Min(current_penalty + 15, 100)

\* min(current_penalty + 0.15, 0.5)
PenaltyAfterFalsePositive(current_penalty) == Min(current_penalty + 15, 50)

\* an approve that clears the penalty
PenaltyClearedOnApprove(current_penalty) == 0

\* max(0, current_penalty - 0.05)
PenaltyAfterApprove(current_penalty) == Max(0, current_penalty - 5)

\* min(current_penalty + 0.05, 0.5)
PenaltyAfterReject(current_penalty) == Min(current_penalty + 5, 50)

\* a window adjustment in the wrong direction
WindowWidened(current_window) == current_window + 50

\* max(1, current_window - 0.5)
WindowAfterFalsePositive(current_window) == Max(100, current_window - 50)

\* an adjustment that writes underbilling_threshold whatever the type
AdjustThresholdOneKey(st, anomaly_type) ==
    Write(st, "underbilling_threshold",
          Num(ReadNum(st.memory, "underbilling_threshold", 1000) + 2500), "feedback")

\* the type-specific threshold adjustment of a false positive
AdjustThreshold(st, anomaly_type) ==
    CASE anomaly_type = "duplicate_refund" ->
            Write(st, "duplicate_refund_window_hours",
                  Num(WindowAfterFalsePositive(
                          ReadNum(st.memory, "duplicate_refund_window_hours", 200))),
                  "feedback")
      [] anomaly_type = "underbilling" ->
            Write(st, "underbilling_threshold",
                  Num(ReadNum(st.memory, "underbilling_threshold", 1000) + 2500), "feedback")
      [] anomaly_type = "refund_spike" ->
            Write(st, "refund_spike_multiplier",
                  Num(ReadNum(st.memory, "refund_spike_multiplier", 200) + 50), "feedback")
      [] anomaly_type = "manual_credit" ->
            Write(st, "manual_credit_threshold",
                  Num(ReadNum(st.memory, "manual_credit_threshold", 20000) + 10000), "feedback")
      [] OTHER -> st

\* _process_case_feedback; st.memory is the table when it is called
ProcessCaseFeedback(st, cs, item, llm_insight) ==
    LET case == CasesWithId(cs, item.target_id)
        seeded == [st EXCEPT !.memory = SeedDefaultsIfEmpty(st.memory)]
        current_penalty == ReadNum(st.memory, "false_positive_penalty", 0)
    IN  CASE item.feedback_type = "false_positive" ->
                LET bumped == Write(st, "false_positive_penalty",
                                    Num(PenaltyAfterFalsePositive(current_penalty)),
                                    IF llm_insight THEN "feedback+llm" ELSE "feedback")
                IN  IF case # {}
                    THEN AdjustThreshold(bumped, (CHOOSE c \in case : TRUE).anomaly_type)
                    ELSE bumped
          [] item.feedback_type = "approve" ->
                IF current_penalty > 0
                THEN Write(st, "false_positive_penalty",
                           Num(PenaltyAfterApprove(current_penalty)), "feedback")
                ELSE seeded
          [] item.feedback_type = "reject" ->
                Write(st, "false_positive_penalty",
                      Num(PenaltyAfterReject(current_penalty)), "feedback")
          [] OTHER -> st

\* an analyst feedback rule whose not_useful always switches to concise
ProcessAnalystFeedbackToConcise(st, item) ==
    LET current_style == OrDefault(GetMemory(st.memory, "explanation_style"), Str("detailed"))
    IN  CASE item.feedback_type = "not_useful" ->
                Write(st, "explanation_style", Str("concise"), "feedback")
          [] item.feedback_type = "useful" ->
                Write(st, "explanation_style", current_style, "feedback")
          [] OTHER -> st

\* _process_analyst_feedback
ProcessAnalystFeedback(st, item) ==
    LET current_style == OrDefault(GetMemory(st.memory, "explanation_style"), Str("detailed"))
        new_style == IF current_style = Str("detailed") THEN Str("concise") ELSE Str("detailed")
    IN  CASE item.feedback_type = "not_useful" ->
                Write(st, "explanation_style", new_style, "feedback")
          [] item.feedback_type = "useful" ->
                Write(st, "explanation_style", current_style, "feedback")
          [] OTHER -> st

\* process_feedback: the memory table after it and the updates it returns.
\* With the LLM available _llm_reason_about_feedback reads all memory first
\* (seeding an empty table) and llm_insight is the text it returns.
ProcessFeedback(mem, cs, item, llm_insight) ==
    LET st == [memory |-> IF llm_insight THEN SeedDefaultsIfEmpty(mem) ELSE mem,
               updates |-> << >>]
    IN  IF item.target_type = "case" THEN ProcessCaseFeedback(st, cs, item, llm_insight)
        ELSE IF item.target_type = "analyst" THEN ProcessAnalystFeedback(st, item)
        ELSE st

---------------------------------------------------------------------------
(* The request handlers, one request at a time (specification Spec) *)

\* confidence as a rank
ConfidenceRank(confidence) ==
    CASE confidence = "low" -> 0
      [] confidence = "medium" -> 1
      [] confidence = "high" -> 2

\* fpBase of a type no false_positive was submitted on
NoRank == ConfidenceRank("high") + 1

NoThreads == << >>
NoWrites == <<"none">>
NoFpBase == [t \in AnomalyTypes |-> NoRank]

\* a run_id is "RUN-" and eight hexadecimal digits of a uuid4
FreshRunIds ==
    { <<"R","U","N","-","a","a","1","1","1","1","1","1">>,
      <<"R","U","N","-","a","a","2","2","2","2","2","2">> }

\* the run_ids a caller of run_triage passes: these, and one that differs
\* from the first only before its last six characters
RunIdPool ==
    FreshRunIds \cup { <<"R","U","N","-","b","b","1","1","1","1","1","1">> }

\* a target_id that is no stored case, and the id of an analyst answer
UnknownCaseId == <<"C","A","S","E","-","D","U","P","-","0","-","9","9">>
AnalystTarget == <<"q","1">>

\* a status update that takes useful on a case for an approval
StatusAlsoOnUseful(cs, target_type, target_id, feedback_type) ==
    IF target_type = "case" /\ feedback_type \in {"approve", "useful"}
    THEN UpdateCaseStatus(cs, target_id, "approved")
    ELSE IF target_type = "case" /\ feedback_type = "false_positive"
    THEN UpdateCaseStatus(cs, target_id, "false_positive")
    ELSE IF target_type = "case" /\ feedback_type = "reject"
    THEN UpdateCaseStatus(cs, target_id, "rejected")
    ELSE cs

\* the status update of submit_feedback
StatusAfterFeedback(cs, target_type, target_id, feedback_type) ==
    IF target_type = "case" /\ feedback_type = "approve"
    THEN UpdateCaseStatus(cs, target_id, "approved")
    ELSE IF target_type = "case" /\ feedback_type = "false_positive"
    THEN UpdateCaseStatus(cs, target_id, "false_positive")
    ELSE IF target_type = "case" /\ feedback_type = "reject"
    THEN UpdateCaseStatus(cs, target_id, "rejected")
    ELSE cs

\* history: the lowest confidence a case had when a false_positive was submitted on it
FpBaseAfter(base, cs, target_type, target_id, feedback_type) ==
    IF target_type = "case" /\ feedback_type = "false_positive"
    THEN [t \in AnomalyTypes |->
            IF \E c \in CasesWithId(cs, target_id) : c.anomaly_type = t
            THEN Min(base[t], ConfidenceRank((CHOOSE c \in CasesWithId(cs, target_id) : TRUE).confidence))
            ELSE base[t]]
    ELSE base

\* a handler that logs the item before it looks at its feedback_type
SubmitFeedbackLogsFirst(target_type, target_id, feedback_type, llm_insight) ==
    /\ feedback' = SaveFeedback(feedback, FeedbackItem(target_type, target_id, feedback_type))
    /\ last' = [op |-> "feedback", target_type |-> target_type, target_id |-> target_id,
                feedback_type |-> feedback_type,
                status |-> IF feedback_type \in FeedbackTypes THEN "ok" ELSE "error",
                updates |-> << >>]
    /\ UNCHANGED <<data, memory, cases, written, fpBase, threads>>

\* POST /feedback (evaluate_run writes only the evals table, which is not modelled)
SubmitFeedback(target_type, target_id, feedback_type, llm_insight) ==
    IF feedback_type \notin FeedbackTypes
    THEN \* FeedbackType(req.feedback_type) raises ValueError
         /\ last' = [op |-> "feedback", target_type |-> target_type, target_id |-> target_id,
                     feedback_type |-> feedback_type, status |-> "error", updates |-> << >>]
         /\ UNCHANGED <<data, memory, cases, feedback, written, fpBase, threads>>
    ELSE LET item == FeedbackItem(target_type, target_id, feedback_type)
             updated == StatusAfterFeedback(cases, target_type, target_id, feedback_type)
         IN  \E done \in {ProcessFeedback(memory, updated, item, llm_insight)} :
             /\ feedback' = SaveFeedback(feedback, item)
             /\ cases' = updated
             /\ memory' = done.memory
             /\ fpBase' = FpBaseAfter(fpBase, cases, target_type, target_id, feedback_type)
             /\ last' = [op |-> "feedback", target_type |-> target_type, target_id |-> target_id,
                         feedback_type |-> feedback_type, status |-> "ok",
                         updates |-> done.updates]
             /\ UNCHANGED <<data, written, threads>>

\* run_triage(run_id) called as the entry point it is
RunTriageDirect(run_id) ==
    \E r \in {RunTriage(data, memory, cases, feedback, run_id)} :
        /\ memory' = r.memory
        /\ cases' = r.cases
        /\ last' = [op |-> "run_triage", run_id |-> run_id]
        /\ UNCHANGED <<data, feedback, written, fpBase, threads>>

\* POST /triage/rerun: clear_cases, then run_triage() with a fresh run_id
RerunTriage(run_id) ==
    \E r \in {RunTriage(data, memory, ClearCases, feedback, run_id)} :
        /\ memory' = r.memory
        /\ cases' = r.cases
        /\ last' = [op |-> "rerun", run_id |-> run_id]
        /\ UNCHANGED <<data, feedback, written, fpBase, threads>>

\* run_autonomous: with no signal it returns early; otherwise it reads all
\* memory, clears the cases and runs triage under its own fresh run_id
\* (signals, actions and the trace are not modelled)
RunAutonomous(run_id, has_signal) ==
    IF ~has_signal
    THEN /\ last' = [op |-> "no_signal"]
         /\ UNCHANGED <<data, memory, cases, feedback, written, fpBase, threads>>
    ELSE \E r \in {RunTriage(data, SeedDefaultsIfEmpty(memory), ClearCases, feedback, run_id)} :
             /\ memory' = r.memory
             /\ cases' = r.cases
             /\ last' = [op |-> "autonomous", run_id |-> run_id]
             /\ UNCHANGED <<data, feedback, written, fpBase, threads>>

\* POST /demo/reset: clears feedback, memory and cases and re-seeds the same data
DemoReset ==
    /\ feedback' = ClearFeedback
    /\ memory' = ClearMemory
    /\ cases' = ClearCases
    /\ fpBase' = NoFpBase
    /\ last' = [op |-> "reset"]
    /\ UNCHANGED <<data, written, threads>>

Init ==
    /\ data = SeedData
    /\ memory = << >>
    /\ cases = {}
    /\ feedback = << >>
    /\ last = [op |-> "init"]
    /\ written = NoWrites
    /\ fpBase = NoFpBase
    /\ threads = NoThreads

\* the targets a client can name: the stored cases and one id that is none
CaseTargets == { c.case_id : c \in cases } \cup {UnknownCaseId}

Next ==
    \/ /\ Len(feedback) < MaxFeedback
       /\ \E tid \in CaseTargets : \E ft \in FeedbackTypes \cup {"bogus"} : \E llm \in BOOLEAN :
              SubmitFeedback("case", tid, ft, llm)
    \/ /\ Len(feedback) < MaxFeedback
       /\ \E ft \in FeedbackTypes : \E llm \in BOOLEAN :
              SubmitFeedback("analyst", AnalystTarget, ft, llm)
    \/ \E run_id \in FreshRunIds : RerunTriage(run_id)
    \/ \E run_id \in FreshRunIds : \E has_signal \in BOOLEAN : RunAutonomous(run_id, has_signal)
    \/ DemoReset

Spec == Init /\ [][Next]_vars

\* run_triage(run_id) called as the entry point, next to the handlers
\* that call it and the case feedback that changes what a run scores
NextEntry ==
    \/ \E run_id \in RunIdPool : RunTriageDirect(run_id)
    \/ \E run_id \in FreshRunIds : RerunTriage(run_id)
    \/ \E run_id \in FreshRunIds : \E has_signal \in BOOLEAN : RunAutonomous(run_id, has_signal)
    \/ /\ Len(feedback) < MaxEntryFeedback
       /\ \E c \in cases : \E ft \in {"approve", "reject", "false_positive"} :
              SubmitFeedback("case", c.case_id, ft, FALSE)
    \/ DemoReset

SpecEntry == Init /\ [][NextEntry]_vars


---------------------------------------------------------------------------
(* The detectors called on their own, between reruns and false positives   *)
(* that move the thresholds (specification SpecDetect)                     *)

\* one detector called: the thresholded ones read memory first, which
\* seeds an empty table; detect_tier_mismatch reads no memory
DetectorCall(name) ==
    \E seeded \in {SeedDefaultsIfEmpty(memory)} :
        /\ memory' = IF name = "tier_mismatch" THEN memory ELSE seeded
        /\ last' = [op |-> "detect", name |-> name, ret |-> Detector(name, data, seeded)]
        /\ UNCHANGED <<data, cases, feedback, written, fpBase, threads>>

\* run_all_detectors called, the detectors in `raising` raising in their
\* query, after their read of memory
RunAllDetectorsCall(raising) ==
    \E seeded \in {SeedDefaultsIfEmpty(memory)} :
        /\ memory' = seeded
        /\ last' = [op |-> "detect_all", raising |-> raising,
                    ret |-> RunAllDetectorsWith(data, seeded, raising)]
        /\ UNCHANGED <<data, cases, feedback, written, fpBase, threads>>

InitDetect ==
    /\ data = FullData
    /\ memory = << >>
    /\ cases = {}
    /\ feedback = << >>
    /\ last = [op |-> "init"]
    /\ written = NoWrites
    /\ fpBase = NoFpBase
    /\ threads = NoThreads

NextDetect ==
    \/ \E i \in 1..Len(DetectorNames) : DetectorCall(DetectorNames[i])
    \/ \E raising \in SUBSET AnomalyTypes : RunAllDetectorsCall(raising)
    \/ RerunTriage(CHOOSE run_id \in FreshRunIds : TRUE)
    \/ /\ Len(feedback) < MaxEntryFeedback
       /\ \E c \in cases : \E llm \in BOOLEAN :
              SubmitFeedback("case", c.case_id, "false_positive", llm)
    \/ DemoReset

SpecDetect == InitDetect /\ [][NextDetect]_vars

---------------------------------------------------------------------------
(* False positives on underbilling cases, each followed by reruns on the   *)
(* same invoices (specification SpecUnder)                                 *)

InitUnder ==
    /\ data = UnderbillingData
    /\ memory = << >>
    /\ cases = {}
    /\ feedback = << >>
    /\ last = [op |-> "init"]
    /\ written = NoWrites
    /\ fpBase = NoFpBase
    /\ threads = NoThreads

NextUnder ==
    \/ /\ Len(feedback) < MaxDeep
       /\ \E c \in cases : \E ft \in {"approve", "false_positive"} :
              SubmitFeedback("case", c.case_id, ft, FALSE)
    \/ RerunTriage(CHOOSE run_id \in FreshRunIds : TRUE)
    \/ DemoReset

SpecUnder == InitUnder /\ [][NextUnder]_vars

---------------------------------------------------------------------------
(* The duplicate-refund detector applied to refunds tables with unique     *)
(* refund ids, under each window feedback can leave (specification         *)
(* SpecDup)                                                                *)

\* what a refund row can hold besides its id
RefundOptions ==
    [customer_id : {3, 4}, amount : {15000, 9900}, refund_date : {0, 3600, 5400, 7200}]

Absent == [customer_id |-> 0]

\* the refunds table with, for each id, the row chosen for it or none
RefundsTable(f) ==
    { [refund_id |-> i, customer_id |-> f[i].customer_id, amount |-> f[i].amount,
       refund_date |-> f[i].refund_date, reason |-> "customer_request"] :
          i \in { j \in DOMAIN f : f[j] # Absent } }

\* the memory table after k false positives on duplicate_refund cases
RECURSIVE MemoryAfterFalsePositives(_)
MemoryAfterFalsePositives(k) ==
    IF k = 0 THEN SeedRows
    ELSE LET mem == MemoryAfterFalsePositives(k - 1)
         IN  SetMemory(SetMemory(mem, "false_positive_penalty",
                                 Num(PenaltyAfterFalsePositive(ReadNum(mem, "false_positive_penalty", 0))),
                                 "feedback"),
                       "duplicate_refund_window_hours",
                       Num(WindowAfterFalsePositive(ReadNum(mem, "duplicate_refund_window_hours", 200))),
                       "feedback")

InitDup ==
    /\ \E f \in [1..MaxRefunds -> RefundOptions \cup {Absent}] :
          data = [customers |-> { [customer_id |-> 3, region |-> "NA"],
                                  [customer_id |-> 4, region |-> "NA"] },
                  subscriptions |-> {}, invoices |-> {}, refunds |-> RefundsTable(f)]
    /\ memory \in { << >> } \cup { MemoryAfterFalsePositives(k) : k \in 1..2 }
    /\ cases = {}
    /\ feedback = << >>
    /\ last = [op |-> "init"]
    /\ written = NoWrites
    /\ fpBase = NoFpBase
    /\ threads = NoThreads

\* detect_duplicate_refunds() called
DetectDuplicatesCall == DetectorCall("duplicate_refund")

SpecDup == InitDup /\ [][DetectDuplicatesCall]_vars

---------------------------------------------------------------------------
(* Reruns in which one call inside run_triage raises (specification        *)
(* SpecFault)                                                              *)

\* POST /triage/rerun when something inside run_triage raises: an
\* exception of save_cases is not caught by run_triage nor by the handler
RerunTriageFaulty(run_id, faults) ==
    \E r \in {RunTriageWith(data, memory, ClearCases, feedback, run_id, faults)} :
        /\ memory' = r.memory
        /\ cases' = r.cases
        /\ last' = [op |-> "rerun_faulty", run_id |-> run_id, faults |-> faults,
                    raised |-> r.raised, ret |-> r.ret]
        /\ UNCHANGED <<data, feedback, written, fpBase, threads>>

NextFault ==
    \/ \E run_id \in FreshRunIds : \E i \in 1..MaxBatch :
          RerunTriageFaulty(run_id, [NoFaults EXCEPT !.sentiment = {i}])
    \/ \E run_id \in FreshRunIds : \E k \in 1..MaxBatch :
          RerunTriageFaulty(run_id, [NoFaults EXCEPT !.save = k])
    \/ \E run_id \in FreshRunIds : RerunTriage(run_id)
    \/ /\ Len(feedback) < MaxEntryFeedback
       /\ \E c \in cases : \E ft \in {"approve", "reject", "false_positive"} :
              SubmitFeedback("case", c.case_id, ft, FALSE)
    \/ DemoReset

SpecFault == Init /\ [][NextFault]_vars

---------------------------------------------------------------------------
(* The five feedback kinds that act, submitted on stored cases, with       *)
(* reruns and resets in between (specification SpecDeep)                   *)

InitDeep ==
    /\ data = DuplicateOnlyData
    /\ memory = << >>
    /\ cases = {}
    /\ feedback = << >>
    /\ last = [op |-> "init"]
    /\ written = NoWrites
    /\ fpBase = NoFpBase
    /\ threads = NoThreads

NextDeep ==
    \/ /\ Len(feedback) < MaxDeep
       /\ \E c \in cases : \E ft \in {"approve", "reject", "false_positive"} :
              SubmitFeedback("case", c.case_id, ft, FALSE)
    \/ /\ Len(feedback) < MaxDeep
       /\ \E ft \in {"useful", "not_useful"} : SubmitFeedback("analyst", AnalystTarget, ft, FALSE)
    \/ \E run_id \in FreshRunIds : RerunTriage(run_id)
    \/ DemoReset

SpecDeep == InitDeep /\ [][NextDeep]_vars

---------------------------------------------------------------------------
(* The memory API called one call at a time (specification SpecMem) *)

\* keys and values the calls are made with
ApiKeys == {"false_positive_penalty", "explanation_style", "test_key"}
ApiValues(key) ==
    IF key = "explanation_style" THEN {Str("concise"), Str("detailed")}
    ELSE {Num(0), Num(42)}

Unset == <<"unset">>
NothingWritten == [k \in ApiKeys |-> Unset]

InitMem ==
    /\ data = SeedData
    /\ memory = << >>
    /\ cases = {}
    /\ feedback = << >>
    /\ last = [op |-> "init", prev |-> "init"]
    /\ written = NothingWritten
    /\ fpBase = NoFpBase
    /\ threads = NoThreads

MemGet(key) ==
    /\ memory' = SeedDefaultsIfEmpty(memory)
    /\ last' = [op |-> "get", prev |-> last.op, key |-> key, ret |-> GetMemory(memory, key)]
    /\ UNCHANGED <<data, cases, feedback, written, fpBase, threads>>

MemSet(key, value) ==
    /\ memory' = SetMemory(memory, key, value, "unit_test")
    /\ last' = [op |-> "set", prev |-> last.op, key |-> key, ret |-> value]
    /\ written' = [written EXCEPT ![key] = value]
    /\ UNCHANGED <<data, cases, feedback, fpBase, threads>>

MemGetAll ==
    /\ memory' = SeedDefaultsIfEmpty(memory)
    /\ last' = [op |-> "get_all", prev |-> last.op, ret |-> GetAllMemory(memory)]
    /\ UNCHANGED <<data, cases, feedback, written, fpBase, threads>>

MemClear ==
    /\ memory' = ClearMemory
    /\ last' = [op |-> "clear", prev |-> last.op]
    /\ written' = NothingWritten
    /\ UNCHANGED <<data, cases, feedback, fpBase, threads>>

NextMem ==
    \/ \E k \in ApiKeys : MemGet(k)
    \/ \E k \in ApiKeys : \E v \in ApiValues(k) : MemSet(k, v)
    \/ MemGetAll
    \/ MemClear

SpecMem == InitMem /\ [][NextMem]_vars

---------------------------------------------------------------------------
(* Two request handlers of the thread pool inside the memory store, one    *)
(* SQL statement per step on the one shared connection (specification      *)
(* SpecConc)                                                               *)

Handlers == {1, 2}
ConcKeys == {"false_positive_penalty", "test_key"}

IdleThread(calls) ==
    [pc |-> "idle", op |-> "none", key |-> "none", value |-> None, i |-> 0,
     existing |-> FALSE, calls |-> calls]

InitConc ==
    /\ data = SeedData
    /\ memory = << >>
    /\ cases = {}
    /\ feedback = << >>
    /\ last = [op |-> "init"]
    /\ written = NoWrites
    /\ fpBase = NoFpBase
    /\ threads = [t \in Handlers |-> IdleThread(0)]

\* a handler enters get_memory or set_memory and runs the first statement
\* of _seed_defaults_if_empty: count = SELECT count(*) FROM memory
ConcBegin(t, op, key) ==
    /\ threads[t].pc = "idle"
    /\ threads[t].calls < MaxCalls
    /\ threads' = [threads EXCEPT ![t] =
          [pc |-> IF Len(memory) = 0 THEN "seed" ELSE "select",
           op |-> op, key |-> key, value |-> Num(t), i |-> 1,
           existing |-> FALSE, calls |-> @.calls + 1]]
    /\ UNCHANGED <<data, memory, cases, feedback, last, written, fpBase>>

\* one turn of the seeding loop: INSERT the next default
ConcSeedInsert(t) ==
    /\ threads[t].pc = "seed"
    /\ memory' = Append(memory, SeedRows[threads[t].i])
    /\ threads' = [threads EXCEPT ![t] =
          IF @.i = Len(SeedRows) THEN [@ EXCEPT !.pc = "select"]
          ELSE [@ EXCEPT !.i = @ + 1]]
    /\ UNCHANGED <<data, cases, feedback, last, written, fpBase>>

\* SELECT ... WHERE key = ?: get_memory returns, set_memory keeps whether a row exists
ConcSelect(t) ==
    /\ threads[t].pc = "select"
    /\ threads' = [threads EXCEPT ![t] =
          IF @.op = "get" THEN IdleThread(@.calls)
          ELSE [@ EXCEPT !.pc = "write",
                         !.existing = Len(RowsWithKey(memory, threads[t].key)) > 0]]
    /\ UNCHANGED <<data, memory, cases, feedback, last, written, fpBase>>

\* set_memory's UPDATE ... WHERE key = ? or INSERT, chosen by the earlier SELECT
ConcWrite(t) ==
    /\ threads[t].pc = "write"
    /\ memory' = IF threads[t].existing
                 THEN UpdateRows(memory, threads[t].key, threads[t].value, "feedback")
                 ELSE Append(memory, MemRow(threads[t].key, threads[t].value, "feedback"))
    /\ threads' = [threads EXCEPT ![t] = IdleThread(@.calls)]
    /\ UNCHANGED <<data, cases, feedback, last, written, fpBase>>

\* clear_memory: one DELETE
ConcClear(t) ==
    /\ threads[t].pc = "idle"
    /\ threads[t].calls < MaxCalls
    /\ memory' = ClearMemory
    /\ threads' = [threads EXCEPT ![t] = IdleThread(@.calls + 1)]
    /\ UNCHANGED <<data, cases, feedback, last, written, fpBase>>

NextConc ==
    \E t \in Handlers :
        \/ \E op \in {"get", "set"} : \E key \in ConcKeys : ConcBegin(t, op, key)
        \/ ConcSeedInsert(t)
        \/ ConcSelect(t)
        \/ ConcWrite(t)
        \/ ConcClear(t)

SpecConc == InitConc /\ [][NextConc]_vars

---------------------------------------------------------------------------
(* The scorer called on its own, on one anomaly and on a batch, under each *)
(* feedback log and memory that feedback on stored cases leaves            *)
(* (specification SpecScore)                                               *)

\* raw impacts on both sides of the two bands of the scorer
ScoreImpacts ==
    {IMPACT_MEDIUM - 1, IMPACT_MEDIUM, IMPACT_HIGH - 1, IMPACT_HIGH, IMPACT_HIGH + IMPACT_MEDIUM}

\* the anomalies a batch is drawn from: both base levels, with ties on the sort key
BatchPool ==
    { <<"duplicate_refund", IMPACT_MEDIUM>>, <<"underbilling", IMPACT_MEDIUM>>,
      <<"duplicate_refund", IMPACT_HIGH>>, <<"refund_spike", IMPACT_HIGH>>,
      <<"manual_credit", IMPACT_MEDIUM - 1>> }

\* the batches of at most MaxAnomalies raw anomalies, each carrying its
\* position in the detectors' emission order as its entity
Batches ==
    UNION { { [i \in 1..n |-> RawAnomaly(f[i][1], f[i][2], <<"pos", i>>)] : f \in [1..n -> BatchPool] }
            : n \in 0..MaxAnomalies }

\* score_anomaly(anomaly, false_positive_types) called twice on the same dict
ScoreAnomalyCall(anomaly, false_positive_types) ==
    \E seeded \in {SeedDefaultsIfEmpty(memory)} :
    \E first \in {ScoreAnomaly(anomaly, false_positive_types, seeded)} :
        /\ memory' = seeded
        /\ last' = [op |-> "score", anomaly |-> anomaly,
                    false_positive_types |-> false_positive_types,
                    ret |-> first,
                    again |-> ScoreAnomaly(first, false_positive_types, seeded)]
        /\ UNCHANGED <<data, cases, feedback, written, fpBase, threads>>

\* score_all_anomalies(anomalies)
ScoreAllAnomaliesCall(anomalies) ==
    \E seeded \in {SeedDefaultsIfEmpty(memory)} :
        /\ memory' = seeded
        /\ last' = [op |-> "score_all", anomalies |-> anomalies,
                    ret |-> ScoreAllAnomalies(anomalies, feedback, seeded)]
        /\ UNCHANGED <<data, cases, feedback, written, fpBase, threads>>

\* the last step was a call of the scorer: a call leaves nothing behind but
\* its result, so the calls are explored from the states the handlers reach
ScorerReturned == last.op \in {"score", "score_all"}

NextScore ==
    \/ /\ Len(feedback) < MaxFeedback
       /\ \E c \in cases : \E ft \in {"false_positive", "approve"} :
              SubmitFeedback("case", c.case_id, ft, FALSE)
    \/ RerunTriage(CHOOSE run_id \in FreshRunIds : TRUE)
    \/ /\ ~ScorerReturned
       /\ \E atype \in AnomalyTypes : \E impact \in ScoreImpacts :
          \E fpt \in {{}, FalsePositiveTypes(feedback), AnomalyTypes \ FalsePositiveTypes(feedback)} :
              ScoreAnomalyCall(RawAnomaly(atype, impact, <<"pos", 1>>), fpt)
    \/ /\ ~ScorerReturned
       /\ \E anomalies \in Batches : ScoreAllAnomaliesCall(anomalies)

SpecScore == Init /\ [][NextScore]_vars

---------------------------------------------------------------------------
(* Step 3 of run_triage on its own: batches of scored anomalies, small and *)
(* of more than a hundred, turned into cases under one run_id              *)
(* (specification SpecCases)                                               *)

\* run_ids with a hyphen among, and with fewer than, their last six characters
OddRunIds ==
    { <<"R","U","N","-","a","-","b","-","c","1">>, <<"r","1">> }

\* the batch sizes explored: the smallest and the largest up to MaxCases
BatchSizes == (1..2) \cup ((MaxCases - 3)..MaxCases)

\* cases = [_anomaly_to_case(a, run_id, i) for i, a in enumerate(scored)]
CreateCases(scored, run_id) ==
    [i \in 1..Len(scored) |-> AnomalyToCase(scored[i], run_id, i - 1)]

\* step 3 for a batch of n scored anomalies whose types alternate between two
CreateCasesCall(run_id, n, atype1, atype2) ==
    LET seeded == SeedDefaultsIfEmpty(memory)
        raw(i) == RawAnomaly(IF i % 2 = 1 THEN atype1 ELSE atype2, IMPACT_MEDIUM, <<"pos", i>>)
        scored == [i \in 1..n |-> ScoreAnomaly(raw(i), {}, seeded)]
    IN  \E built \in {CreateCases(scored, run_id)} :
            /\ last' = [op |-> "create_cases", run_id |-> run_id, n |-> n,
                        ids |-> [i \in 1..n |-> built[i].case_id],
                        types |-> [i \in 1..n |-> built[i].anomaly_type]]
            /\ UNCHANGED <<data, memory, cases, feedback, written, fpBase, threads>>

NextCases ==
    \E run_id \in FreshRunIds \cup OddRunIds : \E n \in BatchSizes :
    \E atype1 \in AnomalyTypes : \E atype2 \in AnomalyTypes :
        CreateCasesCall(run_id, n, atype1, atype2)

SpecCases == Init /\ [][NextCases]_vars

---------------------------------------------------------------------------
(* The feedback table with its primary key: every submission is saved      *)
(* under the feedback_id generated for it (specification SpecLog)          *)

\* f"FB-{uuid.uuid4().hex[:8]}": one of the 16^8 ids, whichever uuid4 gives
FeedbackIds == 1..MaxIds

\* POST /feedback with a valid feedback_type, saved under feedback_id;
\* "written" keeps every item submitted, in order
SubmitFeedbackWithId(feedback_id, target_type, target_id, feedback_type) ==
    LET item == FeedbackItem(target_type, target_id, feedback_type)
        updated == StatusAfterFeedback(cases, target_type, target_id, feedback_type)
    IN  \E done \in {ProcessFeedback(memory, updated, item, FALSE)} :
            /\ feedback' = InsertOrReplaceFeedback(feedback, feedback_id, item)
            /\ written' = Append(written, item)
            /\ cases' = updated
            /\ memory' = done.memory
            /\ fpBase' = FpBaseAfter(fpBase, cases, target_type, target_id, feedback_type)
            /\ last' = [op |-> "feedback", target_type |-> target_type, target_id |-> target_id,
                        feedback_type |-> feedback_type, status |-> "ok",
                        feedback_id |-> feedback_id, updates |-> done.updates]
            /\ UNCHANGED <<data, threads>>

InitLog ==
    /\ data = SeedData
    /\ memory = << >>
    /\ cases = {}
    /\ feedback = << >>
    /\ last = [op |-> "init"]
    /\ written = << >>
    /\ fpBase = NoFpBase
    /\ threads = NoThreads

NextLog ==
    \/ /\ Len(written) < MaxLog
       /\ \E feedback_id \in FeedbackIds : \E tid \in CaseTargets : \E ft \in FeedbackTypes :
              SubmitFeedbackWithId(feedback_id, "case", tid, ft)
    \/ /\ Len(written) < MaxLog
       /\ \E feedback_id \in FeedbackIds : \E ft \in {"useful", "not_useful"} :
              SubmitFeedbackWithId(feedback_id, "analyst", AnalystTarget, ft)
    \/ RerunTriage(CHOOSE run_id \in FreshRunIds : TRUE)

SpecLog == InitLog /\ [][NextLog]_vars

---------------------------------------------------------------------------
(* Approvals, rejections and false positives on the stored cases of all    *)
(* five anomaly types, with reruns and resets in between (specification    *)
(* SpecRatchet)                                                            *)

NextRatchet ==
    \/ /\ Len(feedback) < MaxRatchet
       /\ \E c \in cases : \E ft \in {"approve", "reject", "false_positive"} :
              SubmitFeedback("case", c.case_id, ft, FALSE)
    \/ RerunTriage(CHOOSE run_id \in FreshRunIds : TRUE)
    \/ DemoReset

SpecRatchet == InitDetect /\ [][NextRatchet]_vars

---------------------------------------------------------------------------
(* Two request handlers of the thread pool inside submit_feedback on a     *)
(* case: each get_memory and each set_memory is a step of its own, and the *)
(* value a handler writes is computed from what it read (specification     *)
(* SpecRace)                                                               *)

\* a handler thread between submissions, `done` of them behind it
IdleHandler(done) ==
    [pc |-> "idle", feedback_type |-> "none", anomaly_type |-> "none", current |-> 0,
     done |-> done]

InitRace ==
    /\ data = DuplicateOnlyData
    /\ memory = << >>
    /\ cases = {}
    /\ feedback = << >>
    /\ last = [op |-> "init"]
    /\ written = NoWrites
    /\ fpBase = NoFpBase
    /\ threads = [t \in Handlers |-> IdleHandler(0)]

\* the thread returns from process_feedback
RaceReturn(t) == [threads EXCEPT ![t] = IdleHandler(threads[t].done + 1)]

\* submit_feedback up to get_case in _process_case_feedback: the item is
\* saved, the status updated and the case looked up
RaceBegin(t, target_id, feedback_type) ==
    LET updated == StatusAfterFeedback(cases, "case", target_id, feedback_type)
        case == CasesWithId(updated, target_id)
    IN  /\ threads[t].pc = "idle"
        /\ threads[t].done < MaxSubmissions
        /\ feedback' = SaveFeedback(feedback, FeedbackItem("case", target_id, feedback_type))
        /\ cases' = updated
        /\ fpBase' = FpBaseAfter(fpBase, cases, "case", target_id, feedback_type)
        /\ threads' = [threads EXCEPT ![t] =
              [pc |-> "read_penalty", feedback_type |-> feedback_type,
               anomaly_type |-> IF case = {} THEN "none"
                                ELSE (CHOOSE c \in case : TRUE).anomaly_type,
               current |-> 0, done |-> threads[t].done]]
        /\ last' = [op |-> "race"]
        /\ UNCHANGED <<data, memory, written>>

\* current_penalty = get_memory("false_positive_penalty") or 0.0
RaceReadPenalty(t) ==
    /\ threads[t].pc = "read_penalty"
    /\ memory' = SeedDefaultsIfEmpty(memory)
    /\ \E current_penalty \in {ReadNum(memory, "false_positive_penalty", 0)} :
          threads' = IF threads[t].feedback_type = "approve" /\ ~(current_penalty > 0)
                     THEN RaceReturn(t)
                     ELSE [threads EXCEPT ![t].pc = "write_penalty",
                                           ![t].current = current_penalty]
    /\ UNCHANGED <<data, cases, feedback, last, written, fpBase>>

\* set_memory("false_positive_penalty", new_penalty) from the value read
RaceWritePenalty(t) ==
    LET current_penalty == threads[t].current
        new_penalty ==
            CASE threads[t].feedback_type = "false_positive" ->
                     PenaltyAfterFalsePositive(current_penalty)
              [] threads[t].feedback_type = "approve" -> PenaltyAfterApprove(current_penalty)
              [] threads[t].feedback_type = "reject" -> PenaltyAfterReject(current_penalty)
    IN  /\ threads[t].pc = "write_penalty"
        /\ memory' = SetMemory(memory, "false_positive_penalty", Num(new_penalty), "feedback")
        /\ threads' = IF /\ threads[t].feedback_type = "false_positive"
                         /\ threads[t].anomaly_type = "duplicate_refund"
                      THEN [threads EXCEPT ![t].pc = "read_window"]
                      ELSE RaceReturn(t)
        /\ UNCHANGED <<data, cases, feedback, last, written, fpBase>>

\* current_window = get_memory("duplicate_refund_window_hours") or 2
RaceReadWindow(t) ==
    /\ threads[t].pc = "read_window"
    /\ memory' = SeedDefaultsIfEmpty(memory)
    /\ threads' = [threads EXCEPT ![t].pc = "write_window",
                                  ![t].current = ReadNum(memory, "duplicate_refund_window_hours", 200)]
    /\ UNCHANGED <<data, cases, feedback, last, written, fpBase>>

\* set_memory("duplicate_refund_window_hours", new_window) from the value read
RaceWriteWindow(t) ==
    /\ threads[t].pc = "write_window"
    /\ memory' = SetMemory(memory, "duplicate_refund_window_hours",
                           Num(WindowAfterFalsePositive(threads[t].current)), "feedback")
    /\ threads' = RaceReturn(t)
    /\ UNCHANGED <<data, cases, feedback, last, written, fpBase>>

\* a triage run between the handlers' steps: it stores the cases feedback is given on
RaceRerun ==
    \E r \in {RunTriage(data, memory, ClearCases, feedback, CHOOSE run_id \in FreshRunIds : TRUE)} :
        /\ memory' = r.memory
        /\ cases' = r.cases
        /\ last' = [op |-> "race"]
        /\ UNCHANGED <<data, feedback, written, fpBase, threads>>

NextRace ==
    \/ \E t \in Handlers : \E c \in cases :
       \E ft \in {"approve", "reject", "false_positive"} : RaceBegin(t, c.case_id, ft)
    \/ \E t \in Handlers : RaceReadPenalty(t)
    \/ \E t \in Handlers : RaceWritePenalty(t)
    \/ \E t \in Handlers : RaceReadWindow(t)
    \/ \E t \in Handlers : RaceWriteWindow(t)
    \/ RaceRerun

SpecRace == InitRace /\ [][NextRace]_vars

---------------------------------------------------------------------------
(* Claims *)

\* the value the default table gives a key, None for a key that is no default
DefaultValue(key) ==
    IF key \in DefaultKeys
    THEN DEFAULTS[CHOOSE i \in 1..Len(DEFAULTS) : DEFAULTS[i].key = key].value
    ELSE None

\* the step just taken was an accepted feedback submission
FeedbackStep == last'.op = "feedback" /\ last'.status = "ok"

\* C1: once a case's status has left open, a later feedback submission on
\* that case is appended to the feedback log and leaves the status what the
\* first verdict set.
C1_StatusIsFinal ==
    [][FeedbackStep =>
          /\ Len(feedback') = Len(feedback) + 1
          /\ \A c \in cases : \A c2 \in cases' :
                (c.status # "open" /\ c2.case_id = c.case_id) => c2.status = c.status]_vars

\* C2: a case-targeted approve, reject or false_positive whose target_id
\* matches no stored case leaves every memory entry, false_positive_penalty
\* included, at the value it had before the call.
C2_UnknownTargetWritesNoMemory ==
    [][(/\ FeedbackStep
        /\ last'.target_type = "case"
        /\ last'.feedback_type \in {"approve", "reject", "false_positive"}
        /\ CasesWithId(cases, last'.target_id) = {})
          => GetAllMemory(memory') = GetAllMemory(memory)]_vars

\* the false_positive_penalty a reader of memory gets
Penalty == GetMemory(memory, "false_positive_penalty")
\* the duplicate_refund_window_hours a reader of memory gets
Window == GetMemory(memory, "duplicate_refund_window_hours")

\* C3: in every state reachable from the seeded defaults by feedback
\* submissions and triage runs, false_positive_penalty is a number p with
\* 0 <= p <= 0.5.
C3_PenaltyInRange ==
    /\ Penalty[1] = "num"
    /\ 0 <= NumOf(Penalty)
    /\ NumOf(Penalty) <= 50

\* C3 witness: feedback has driven the penalty to its cap
C3_Witness == Len(feedback) >= 4 /\ Penalty = Num(50)

\* the log holds nothing but false_positive submissions on one stored duplicate_refund case
OnlyFalsePositivesOnOneDuplicate ==
    \E c \in cases :
        /\ c.anomaly_type = "duplicate_refund"
        /\ \A i \in 1..Len(feedback) :
              feedback[i] = FeedbackItem("case", c.case_id, "false_positive")

\* C4: from default memory, after n consecutive false_positive submissions
\* on the same stored duplicate_refund case, false_positive_penalty is
\* min(0.15 n, 0.5) and duplicate_refund_window_hours is max(1, 2 - 0.5 n).
C4_ConsecutiveFalsePositives ==
    OnlyFalsePositivesOnOneDuplicate =>
        /\ Penalty = Num(Min(15 * Len(feedback), 50))
        /\ Window = Num(Max(100, 200 - 50 * Len(feedback)))

\* C4 witness: four such submissions, the cap and the floor both reached
C4_Witness ==
    /\ OnlyFalsePositivesOnOneDuplicate
    /\ Len(feedback) = 4
    /\ Penalty = Num(50)
    /\ Window = Num(100)

\* C5: after a false_positive on a case of type T, every later triage run
\* that clears and re-creates the cases (no demo reset in between) gives
\* each case of type T a confidence no higher than the case had when the
\* feedback was submitted.
C5_ConfidenceNeverHigher ==
    last.op \in {"rerun", "autonomous"} =>
        \A c \in cases : ConfidenceRank(c.confidence) <= fpBase[c.anomaly_type]

\* C5 witness: a rerun after a false_positive re-created a case of that type, one level lower
C5_Witness ==
    /\ last.op = "rerun"
    /\ \E c \in cases :
          /\ fpBase[c.anomaly_type] # NoRank
          /\ ConfidenceRank(c.confidence) < fpBase[c.anomaly_type]

\* C6: after any triage run started through run_triage(run_id) (directly,
\* via rerun or via the autonomous pipeline) every stored case carries that
\* run's run_id.
C6_OnlyCasesOfTheRun ==
    last.op \in {"run_triage", "rerun", "autonomous"} =>
        \A c \in cases : c.run_id = last.run_id

\* C7: saving a run's cases never overwrites a stored case of a run with
\* another run_id (cases of different runs never share a case_id).
C7_NoOverwriteAcrossRuns ==
    [][last'.op = "run_triage" =>
          \A c \in cases : \A c2 \in cases' :
              c2.case_id = c.case_id => c2.run_id = c.run_id]_vars

\* C8: under any interleaving of two request handlers inside the memory
\* store (both calling set on one key, or both making the first access
\* after a clear) the table never holds two rows for one key.
C8_NeverTwoRowsPerKey ==
    \A i \in 1..Len(memory) : \A j \in 1..Len(memory) :
        memory[i].key = memory[j].key => i = j

\* the keys the memory table holds
StoredKeys == { memory[i].key : i \in 1..Len(memory) }

\* C9: with the calls made one at a time the memory table holds exactly one
\* row per live key, and get(key) returns the value of the latest set on the
\* key since the last clear, else the seeded default, else None.
C9_OneRowPerKeyLastWriteWins ==
    /\ \A k \in StoredKeys : Len(RowsWithKey(memory, k)) = 1
    /\ Len(memory) > 0 =>
          StoredKeys = DefaultKeys \cup { k \in ApiKeys : written[k] # Unset }
    /\ last.op = "get" =>
          last.ret = IF written[last.key] # Unset THEN written[last.key]
                     ELSE DefaultValue(last.key)

\* C9 witness: a get returned the second of two values set on a key
C9_Witness ==
    /\ last.op = "get"
    /\ last.prev = "set"
    /\ last.key = "test_key"
    /\ last.ret = Num(42)
    /\ Len(memory) = 7

\* what get_all returns on the seeded defaults alone
DefaultEntries ==
    { [key |-> DEFAULTS[i].key, value |-> DEFAULTS[i].value, source |-> "system_default"] :
          i \in 1..Len(DEFAULTS) }

\* C10: the get_all() that follows a clear() returns exactly six entries,
\* the default keys with their default values, each with source
\* system_default.
C10_GetAllAfterClear ==
    (last.op = "get_all" /\ last.prev = "clear") =>
        /\ Len(last.ret) = 6
        /\ { last.ret[i] : i \in 1..Len(last.ret) } = DefaultEntries

\* C10 witness: a get_all answered right after a clear, the table seeded again
C10_Witness ==
    /\ last.op = "get_all"
    /\ last.prev = "clear"
    /\ Len(memory) = 6

\* the cases rerun_triage builds, in rank order, when nothing raises
FullBatch == RunTriage(data, memory, ClearCases, feedback, last.run_id).ret

\* the elements of a sequence
Range(seq) == { seq[i] : i \in 1..Len(seq) }

\* C11: if persisting a run's cases fails partway through the batch, the
\* failure reaches the caller and the case store keeps no non-empty strict
\* subset of that run's cases.
C11_NoPartialBatch ==
    (last.op = "rerun_faulty" /\ last.faults.save > 0) =>
        /\ last.raised
        /\ ~(cases # {} /\ cases \subseteq Range(FullBatch) /\ cases # Range(FullBatch))

\* C13: if the sentiment call raises for one case of a batch, run_triage
\* raises nothing, persists and returns every case of the batch in rank
\* order, and only the failed case has sentiment_score absent.
C13_SentimentFailureIsolated ==
    (last.op = "rerun_faulty" /\ last.faults.sentiment # {}) =>
        /\ ~last.raised
        /\ Len(last.ret) = Len(FullBatch)
        /\ \A i \in 1..Len(last.ret) :
              /\ last.ret[i] = IF i \in last.faults.sentiment
                               THEN [FullBatch[i] EXCEPT !.sentiment_score = None]
                               ELSE FullBatch[i]
              /\ FullBatch[i].sentiment_score # None
              /\ \A j \in 1..Len(last.ret) : i < j => ~KeyLess(last.ret[j], last.ret[i])
        /\ cases = Range(last.ret)

\* C13 witness: the call failed for the second of three cases
C13_Witness ==
    /\ last.op = "rerun_faulty"
    /\ last.faults.sentiment = {2}
    /\ Len(last.ret) = 3
    /\ last.ret[1].sentiment_score # None
    /\ last.ret[2].sentiment_score = None
    /\ last.ret[3].sentiment_score # None
    /\ Cardinality(cases) = 3

\* what run_all_detectors keeps of one detector
KeptOf(name) == IF name \in last.raising THEN << >> ELSE Detector(name, data, memory)

\* C12: for every subset of the five detectors that raises,
\* run_all_detectors raises nothing and returns the concatenation, in the
\* order duplicate_refund, underbilling, tier_mismatch, refund_spike,
\* manual_credit, of the results of the detectors that did not raise.
C12_DetectorFailureIsolated ==
    last.op = "detect_all" =>
        last.ret = KeptOf("duplicate_refund") \o KeptOf("underbilling")
                      \o KeptOf("tier_mismatch") \o KeptOf("refund_spike")
                      \o KeptOf("manual_credit")

\* C12 witness: two of five firing detectors raised, the other three results came back
C12_Witness ==
    /\ last.op = "detect_all"
    /\ last.raising = {"underbilling", "refund_spike"}
    /\ Len(last.ret) = 3
    /\ last.ret[1].anomaly_type = "duplicate_refund"
    /\ last.ret[2].anomaly_type = "tier_mismatch"
    /\ last.ret[3].anomaly_type = "manual_credit"

\* the memory key a false positive on a case of this type adjusts
ThresholdKey(anomaly_type) ==
    CASE anomaly_type = "duplicate_refund" -> "duplicate_refund_window_hours"
      [] anomaly_type = "underbilling" -> "underbilling_threshold"
      [] anomaly_type = "refund_spike" -> "refund_spike_multiplier"
      [] anomaly_type = "manual_credit" -> "manual_credit_threshold"
      [] OTHER -> "none"

\* the value the claim gives that key after a false positive
ThresholdAfter(anomaly_type, mem) ==
    CASE anomaly_type = "duplicate_refund" ->
            Num(Max(100, NumOf(GetMemory(mem, "duplicate_refund_window_hours")) - 50))
      [] anomaly_type = "underbilling" ->
            Num(NumOf(GetMemory(mem, "underbilling_threshold")) + 2500)
      [] anomaly_type = "refund_spike" ->
            Num(NumOf(GetMemory(mem, "refund_spike_multiplier")) + 50)
      [] anomaly_type = "manual_credit" ->
            Num(NumOf(GetMemory(mem, "manual_credit_threshold")) + 10000)

\* the entries of memory whose key is not among `keys`
EntriesBut(mem, keys) == { e \in Range(GetAllMemory(mem)) : e.key \notin keys }

\* C15: a false_positive on a stored case of type T changes only
\* false_positive_penalty and T's own threshold key (window for
\* duplicate_refund, +25 for underbilling, +0.5 for refund_spike, +100 for
\* manual_credit, none for tier_mismatch); every other entry keeps its
\* value and source.
C15_FalsePositiveFrame ==
    [][(/\ FeedbackStep
        /\ last'.target_type = "case"
        /\ last'.feedback_type = "false_positive"
        /\ CasesWithId(cases, last'.target_id) # {})
          => LET T == (CHOOSE c \in CasesWithId(cases, last'.target_id) : TRUE).anomaly_type
                 changed == {"false_positive_penalty", ThresholdKey(T)}
             IN  /\ EntriesBut(memory', changed) = EntriesBut(memory, changed)
                 /\ Len(GetAllMemory(memory')) = Len(GetAllMemory(memory))
                 /\ T # "tier_mismatch" =>
                       GetMemory(memory', ThresholdKey(T)) = ThresholdAfter(T, memory)]_vars

\* C15 witness: a false positive on the refund_spike case moved the multiplier to 2.5
C15_Witness ==
    /\ last.op = "feedback"
    /\ last.feedback_type = "false_positive"
    /\ \E c \in cases : c.case_id = last.target_id /\ c.anomaly_type = "refund_spike"
    /\ GetMemory(memory, "refund_spike_multiplier") = Num(250)
    /\ Penalty = Num(15)

\* C16: a detector, or run_all_detectors, called from any reachable state
\* leaves the stored memory entries and every stored case as they were.
C16_DetectorsWriteNothing ==
    [][last'.op \in {"detect", "detect_all"} =>
          memory' = memory /\ cases' = cases]_vars

\* C14: submit_feedback with a feedback_type outside approve, reject,
\* false_positive, useful, not_useful fails before anything is written:
\* the feedback log, every case and every memory entry are as before.
C14_InvalidTypeWritesNothing ==
    [][(last'.op = "feedback" /\ last'.feedback_type \notin FeedbackTypes) =>
          /\ last'.status = "error"
          /\ feedback' = feedback
          /\ cases' = cases
          /\ memory' = memory]_vars

\* C14 witness: a submission was refused with cases, a log and memory in place
C14_Witness ==
    /\ last.op = "feedback"
    /\ last.status = "error"
    /\ last.feedback_type \notin FeedbackTypes
    /\ \E c \in cases : c.case_id = last.target_id
    /\ Len(feedback) > 0
    /\ Len(memory) > 0

\* the status the state machine gives an open case
VerdictStatus(feedback_type) ==
    CASE feedback_type = "approve" -> "approved"
      [] feedback_type = "false_positive" -> "false_positive"
      [] feedback_type = "reject" -> "rejected"

\* C17: every case is created with status open; a case-targeted approve,
\* false_positive or reject on an open case sets its status to approved,
\* false_positive or rejected; useful, not_useful and every
\* analyst-targeted feedback leave all case statuses unchanged.
C17_StatusStateMachine ==
    [][/\ last'.op \in {"rerun", "autonomous"} => \A c \in cases' : c.status = "open"
       /\ FeedbackStep =>
             IF last'.target_type = "case"
                /\ last'.feedback_type \in {"approve", "false_positive", "reject"}
             THEN \A c \in cases :
                     (c.case_id = last'.target_id /\ c.status = "open") =>
                         [c EXCEPT !.status = VerdictStatus(last'.feedback_type)] \in cases'
             ELSE cases' = cases]_vars

\* C17 witness: the first feedback on a case, a false_positive, set its status
C17_Witness ==
    /\ last.op = "feedback"
    /\ last.feedback_type = "false_positive"
    /\ Len(feedback) = 1
    /\ \E c \in cases : c.case_id = last.target_id /\ c.status = "false_positive"
    /\ \E c \in cases : c.status = "open"

\* C18: approve on a case lowers false_positive_penalty by 0.05, floored
\* at 0, when the penalty is above 0; when it is 0 it writes nothing and
\* returns an empty change list; no other memory key is touched.
C18_ApproveDecay ==
    [][(/\ FeedbackStep
        /\ last'.target_type = "case"
        /\ last'.feedback_type = "approve")
          => IF NumOf(Penalty) > 0
             THEN /\ GetMemory(memory', "false_positive_penalty")
                        = Num(Max(0, NumOf(Penalty) - 5))
                  /\ EntriesBut(memory', {"false_positive_penalty"})
                        = EntriesBut(memory, {"false_positive_penalty"})
                  /\ Len(memory') = Len(memory)
                  /\ Len(last'.updates) = 1
                  /\ last'.updates[1].key = "false_positive_penalty"
             ELSE /\ memory' = memory
                  /\ last'.updates = << >>]_vars

\* C18 witness: an approve took the penalty from 0.30 to 0.25
C18_Witness ==
    /\ last.op = "feedback"
    /\ last.feedback_type = "approve"
    /\ Len(last.updates) = 1
    /\ Len(feedback) = 3
    /\ Penalty = Num(25)

\* the invoices the stored underbilling cases are about
FlaggedInvoices(cs) == { c.entity[1] : c \in { x \in cs : x.anomaly_type = "underbilling" } }

DuplicatePairs ==
    { P \in SUBSET data.refunds :
        /\ Cardinality(P) = 2
        /\ \A r1 \in P : \A r2 \in P :
              /\ r1.customer_id = r2.customer_id
              /\ r1.amount = r2.amount
              /\ Abs(r1.refund_date - r2.refund_date) * 100 < NumOf(Window) * 3600 }

\* the refunds an anomaly of the detector names
RefundsOf(anomaly) == { r \in data.refunds : r.refund_id \in Range(anomaly.entity) }

\* C20: for every refunds table with unique refund ids the duplicate-refund
\* detector returns exactly one anomaly per unordered pair of distinct
\* refunds with the same customer, the same amount and timestamps less
\* than duplicate_refund_window_hours * 3600 seconds apart, with raw_impact
\* that amount; no refund is paired with itself, no pair reported twice.
C20_OneAnomalyPerPair ==
    last.op = "detect" =>
        /\ Len(last.ret) = Cardinality(DuplicatePairs)
        /\ \A P \in DuplicatePairs : \E i \in 1..Len(last.ret) : RefundsOf(last.ret[i]) = P
        /\ \A i \in 1..Len(last.ret) :
              /\ RefundsOf(last.ret[i]) \in DuplicatePairs
              /\ last.ret[i].entity[1] # last.ret[i].entity[2]
              /\ \A r \in RefundsOf(last.ret[i]) : last.ret[i].raw_impact = r.amount
              /\ \A j \in 1..Len(last.ret) :
                    RefundsOf(last.ret[i]) = RefundsOf(last.ret[j]) => i = j

\* C20 witness: three refunds of one customer and amount an hour apart
\* each, window 2 h: the two pairs an hour apart, not the pair two hours apart
C20_Witness ==
    /\ last.op = "detect"
    /\ Cardinality(data.refunds) = 3
    /\ \A r1 \in data.refunds : \A r2 \in data.refunds :
          r1.customer_id = r2.customer_id /\ r1.amount = r2.amount
    /\ { r.refund_date : r \in data.refunds } = {0, 3600, 7200}
    /\ Window = Num(200)
    /\ Len(last.ret) = 2

\* the position in the detectors' emission order a batch anomaly carries
PositionOf(anomaly) == anomaly.entity[2]

\* a and b compare equal under the sort key (severity rank, -estimated_impact)
SameKey(a, b) ==
    /\ SeverityOrder(a.severity) = SeverityOrder(b.severity)
    /\ a.estimated_impact = b.estimated_impact

ScoredAsFalsePositive == last.anomaly.anomaly_type \in last.false_positive_types

\* C22: for an anomaly whose type is in false_positive_types the scorer
\* lowers confidence to exactly one level below the type's base confidence
\* (high -> medium, medium -> low), however many false_positive items the
\* log holds for the type and whatever the penalty is; for any other
\* anomaly confidence is the base confidence.
C22_OneLevelDowngrade ==
    last.op = "score" =>
        LET base == BaseScores(last.anomaly.anomaly_type).confidence
        IN  /\ base \in {"high", "medium"}
            /\ last.ret.confidence =
                  IF ~ScoredAsFalsePositive THEN base
                  ELSE IF base = "high" THEN "medium" ELSE "low"

\* C22 witness: two false positives on the manual-credit case (penalty
\* 0.30), and a manual-credit anomaly scored medium -> low
C22_Witness ==
    /\ last.op = "score"
    /\ last.anomaly.anomaly_type = "manual_credit"
    /\ ScoredAsFalsePositive
    /\ last.false_positive_types = FalsePositiveTypes(feedback)
    /\ Len(feedback) = 2
    /\ \A i \in 1..2 : feedback[i].feedback_type = "false_positive"
    /\ Penalty = Num(30)
    /\ last.ret.confidence = "low"

\* C23: the severity the scorer assigns is a function of anomaly_type and
\* raw_impact only: high when raw_impact >= 200; otherwise medium when
\* raw_impact < 50 and the type's base severity is high; otherwise the base
\* severity.  false_positive_penalty and false_positive_types play no part.
C23_SeverityFromTypeAndRawImpact ==
    last.op = "score" =>
        LET base == BaseScores(last.anomaly.anomaly_type).severity
            raw == last.anomaly.raw_impact
        IN  last.ret.severity =
                IF raw >= IMPACT_HIGH THEN "high"
                ELSE IF raw < IMPACT_MEDIUM /\ base = "high" THEN "medium"
                ELSE base

\* C23 witness: a medium-base anomaly of exactly $200 whose type is a
\* false-positive type: the penalty takes the estimate under $200, the
\* severity is high all the same
C23_Witness ==
    /\ last.op = "score"
    /\ BaseScores(last.anomaly.anomaly_type).severity = "medium"
    /\ last.anomaly.raw_impact = IMPACT_HIGH
    /\ ScoredAsFalsePositive
    /\ last.ret.estimated_impact < IMPACT_HIGH
    /\ last.ret.severity = "high"

\* C26: scoring is idempotent: score_anomaly called twice on the same raw
\* anomaly with the same false_positive_types and the same memory gives the
\* same severity, confidence, estimated_impact and recommended_action,
\* although the first call wrote its results into the anomaly record.
C26_ScoringIdempotent ==
    last.op = "score" =>
        /\ last.again.severity = last.ret.severity
        /\ last.again.confidence = last.ret.confidence
        /\ last.again.estimated_impact = last.ret.estimated_impact
        /\ last.again.recommended_action = last.ret.recommended_action

\* C26 witness: the first call wrote an estimate below the raw impact and a
\* lowered confidence into the record the second call was given
C26_Witness ==
    /\ last.op = "score"
    /\ ScoredAsFalsePositive
    /\ last.ret.estimated_impact < last.ret.raw_impact
    /\ last.ret.confidence # BaseScores(last.anomaly.anomaly_type).confidence
    /\ last.again.estimated_impact = last.ret.estimated_impact

\* the number a sequence of decimal digits writes
RECURSIVE DigitsValue(_)
DigitsValue(d) ==
    IF d = << >> THEN 0
    ELSE 10 * DigitsValue(SubSeq(d, 1, Len(d) - 1))
            + ((CHOOSE k \in 1..Len(Digits) : Digits[k] = d[Len(d)]) - 1)

\* id reads CASE-<three capitals>-<suffix>-<decimal digits of index>
HasCaseIdForm(id, suffix, index) ==
    LET k == Len(suffix)
        d == SubSeq(id, 11 + k, Len(id))
    IN  /\ Len(id) >= 11 + k
        /\ SubSeq(id, 1, 5) = <<"C","A","S","E","-">>
        /\ \A i \in 6..8 : id[i] \in Range(UpperAlpha)
        /\ id[9] = "-"
        /\ SubSeq(id, 10, 9 + k) = suffix
        /\ id[10 + k] = "-"
        /\ \A i \in 1..Len(d) : d[i] \in Range(Digits)
        /\ DigitsValue(d) = index

\* C24: for any single run_id and any batch of N scored anomalies the case
\* factory produces N pairwise distinct case_ids, each of the form
\* CASE-<3-letter type prefix>-<last 6 characters of run_id>-<index>, also
\* when N exceeds 100.
C24_DistinctCaseIds ==
    last.op = "create_cases" =>
        /\ Len(last.ids) = last.n
        /\ \A i \in 1..last.n : \A j \in 1..last.n : last.ids[i] = last.ids[j] => i = j
        /\ \A i \in 1..last.n :
              /\ HasCaseIdForm(last.ids[i], LastN(last.run_id, RunSuffixLen), i - 1)
              /\ SubSeq(last.ids[i], 6, 8) = Upper(SubSeq(TypeChars(last.types[i]), 1, 3))

\* C24 witness: more than a hundred cases of two types under a run_id with
\* hyphens among its last six characters, the last index written with
\* three digits
C24_Witness ==
    /\ last.op = "create_cases"
    /\ last.n > 100
    /\ "-" \in Range(LastN(last.run_id, RunSuffixLen))
    /\ last.types[1] # last.types[2]
    /\ Len(last.ids[last.n]) = Len(last.ids[1]) + 1

\* C25: the feedback log is append-only: each accepted submit_feedback
\* adds exactly one new record with a fresh feedback_id, and no feedback
\* submission, triage run or rerun modifies or removes a record already
\* in the log.
C25_LogAppendOnly ==
    [][/\ \A i \in 1..Len(feedback) : i <= Len(feedback') /\ feedback'[i] = feedback[i]
       /\ FeedbackStep =>
             /\ Len(feedback') = Len(feedback) + 1
             /\ \A i \in 1..Len(feedback) :
                   feedback[i].feedback_id # feedback'[Len(feedback')].feedback_id]_vars

\* the anomaly types of the stored cases a false_positive was submitted on
\* since the last reset
TypesMarkedFalsePositive == { t \in AnomalyTypes : fpBase[t] # NoRank }

\* C27: the set of types the scorer treats as false-positive equals the set
\* of anomaly_type values of the cases that received false_positive
\* feedback: the 3-letter case_id prefix decodes back to the case's type for
\* each of the five types and every run_id, and the attribution survives
\* the deletion of those cases on rerun.
C27_FalsePositiveTypesAreCaseTypes ==
    FalsePositiveTypes(feedback) = TypesMarkedFalsePositive

\* the explanation_style a reader of memory gets
Style(mem) == GetMemory(mem, "explanation_style")

\* the penalty and the four detection thresholds
DetectionKeys ==
    {"false_positive_penalty", "duplicate_refund_window_hours", "underbilling_threshold",
     "refund_spike_multiplier", "manual_credit_threshold"}

\* C28: analyst-targeted feedback: not_useful flips explanation_style
\* between detailed and concise (two in a row restore the style), useful
\* rewrites the entry with the value it already had, and neither changes
\* false_positive_penalty or any detection threshold.
C28_AnalystFeedbackStyleOnly ==
    [][(FeedbackStep /\ last'.target_type = "analyst") =>
          /\ Style(memory) \in {Str("detailed"), Str("concise")}
          /\ last'.feedback_type = "not_useful" =>
                Style(memory') = IF Style(memory) = Str("detailed")
                                 THEN Str("concise") ELSE Str("detailed")
          /\ last'.feedback_type = "useful" =>
                /\ Style(memory') = Style(memory)
                /\ \E i \in 1..Len(last'.updates) :
                      last'.updates[i] = Entry("explanation_style", Style(memory), "feedback")
          /\ \A key \in DetectionKeys : GetMemory(memory', key) = GetMemory(memory, key)]_vars

\* C28 witness: two not_useful in a row on an analyst answer, after which
\* the style is the detailed it was at first
C28_Witness ==
    /\ last.op = "feedback"
    /\ last.target_type = "analyst"
    /\ Len(feedback) = 2
    /\ \A i \in 1..2 : feedback[i].target_type = "analyst" /\ feedback[i].feedback_type = "not_useful"
    /\ Style(memory) = Str("detailed")
    /\ \E i \in 1..Len(memory) : memory[i].key = "explanation_style" /\ memory[i].source = "feedback"

\* the number a reader of memory gets for a key
NumValue(mem, key) == NumOf(GetMemory(mem, key))

\* the thresholds a false positive raises
RaisedKeys == {"underbilling_threshold", "refund_spike_multiplier", "manual_credit_threshold"}

\* C29: between two memory resets the detection thresholds only ratchet:
\* over any sequence of feedback, underbilling_threshold,
\* refund_spike_multiplier and manual_credit_threshold never decrease,
\* duplicate_refund_window_hours never increases and never drops below 1,
\* and an approve never moves any of them.
C29_ThresholdsRatchet ==
    [][last'.op # "reset" =>
          /\ \A key \in RaisedKeys : NumValue(memory', key) >= NumValue(memory, key)
          /\ NumValue(memory', "duplicate_refund_window_hours")
                <= NumValue(memory, "duplicate_refund_window_hours")
          /\ NumValue(memory', "duplicate_refund_window_hours") >= 100
          /\ (FeedbackStep /\ last'.feedback_type = "approve") =>
                \A key \in RaisedKeys \cup {"duplicate_refund_window_hours"} :
                    GetMemory(memory', key) = GetMemory(memory, key)]_vars

\* C29 witness: an approve submitted after false positives have narrowed
\* the window and raised a threshold
C29_Witness ==
    /\ last.op = "feedback"
    /\ last.feedback_type = "approve"
    /\ Len(feedback) = MaxRatchet
    /\ NumValue(memory, "duplicate_refund_window_hours") < NumOf(DefaultValue("duplicate_refund_window_hours"))
    /\ \E key \in RaisedKeys : NumValue(memory, key) > NumOf(DefaultValue(key))

\* C30: under any interleaving of concurrently handled feedback
\* submissions, each reading a memory value, computing the new one and
\* writing it as separate steps, false_positive_penalty stays within
\* [0, 0.5] and duplicate_refund_window_hours stays >= 1, even when one
\* submission's update is overwritten by another's.
C30_InRangeUnderInterleaving ==
    /\ Penalty[1] = "num" /\ NumOf(Penalty) >= 0 /\ NumOf(Penalty) <= 50
    /\ Window[1] = "num" /\ NumOf(Window) >= 100
    /\ \A t \in Handlers :
          /\ threads[t].pc = "write_penalty" =>
                threads[t].current >= 0 /\ threads[t].current <= 50
          /\ threads[t].pc = "write_window" => threads[t].current >= 100

\* C30 witness: both handlers have returned from one false positive each
\* on the duplicate case, and the penalty and the window moved one step
\* only: one handler's updates were overwritten by the other's
C30_Witness ==
    /\ \A t \in Handlers : threads[t].pc = "idle" /\ threads[t].done = 1
    /\ Len(feedback) = 2
    /\ \A i \in 1..2 : feedback[i].feedback_type = "false_positive"
    /\ \A i \in 1..2 : \E c \in cases : c.case_id = feedback[i].target_id
    /\ Penalty = Num(15)
    /\ Window = Num(150)

====
